---- MODULE Spec2Model ----
(***************************************************************************)
(* Model of the trigger subsystem of hexaFn.                               *)
(*                                                                         *)
(* Part 1: the trigger lifecycle state machine,                            *)
(*   crates/hexafn-trigger/src/domain/value_objects/trigger_state.rs       *)
(*                                                                         *)
(* A TriggerState is an immutable value: every lifecycle method takes      *)
(* `self` by value and returns Result<Self, StateTransitionError>.  The    *)
(* variable `state` is the value the orchestrator currently holds.  When a *)
(* method returns Ok(s) the orchestrator holds s.  When it returns Err the *)
(* moved value (including any field the method had already updated) is     *)
(* dropped, and the orchestrator goes on with the value it held before the *)
(* call (TriggerState derives Clone); `last` records the call and what it  *)
(* returned.                                                               *)
(***************************************************************************)
EXTENDS Integers, Sequences, FiniteSets, TLC

\* ---------------------------------------------------------------- bounds

\* execution_count is a u64; record_* calls are explored while it is below this
MaxExecutions == 4
\* the max_failures argument of record_execution_failure ranges over 0..MaxFailuresArg
MaxFailuresArg == 3
\* the clock read by Timestamp::now() ranges over 0..MaxTime
MaxTime == 1

\* ------------------------------------------------------- Option<T> values

None == << >>

Some(x) == << x >>

\* A String that the code builds with format! is the sequence of its pieces:
\* Text(s) is the literal s, and \o concatenates.
Text(s) == << s >>

\* -------------------------------------------------------------- StateType

StateType ==
    {"Inactive", "Active", "Executing", "Success", "Failed", "Suspended", "Archived"}

\* the arms of the match in can_transition_to that name both states
ExplicitEdges ==
    { <<"Inactive", "Active">>, <<"Inactive", "Archived">>,
      <<"Active", "Executing">>, <<"Active", "Suspended">>,
      <<"Active", "Inactive">>, <<"Active", "Archived">>,
      <<"Executing", "Success">>, <<"Executing", "Failed">>,
      <<"Executing", "Suspended">>,
      <<"Success", "Active">>, <<"Success", "Suspended">>, <<"Success", "Archived">>,
      <<"Failed", "Active">>, <<"Failed", "Suspended">>, <<"Failed", "Archived">>,
      <<"Suspended", "Active">>, <<"Suspended", "Inactive">>,
      <<"Suspended", "Archived">> }

\* mutant: the emergency-suspend arm (Executing, Suspended) is missing
CanTransitionTo_NoEmergencySuspend(self, target) ==
    IF <<self, target>> \in ExplicitEdges \ { <<"Executing", "Suspended">> } THEN TRUE
    ELSE IF self = "Archived" THEN FALSE
    ELSE IF self = target THEN TRUE
    ELSE FALSE

\* mutant: the (Archived, _) arm is missing and an archived trigger can be restored
CanTransitionTo_ArchivedRestorable(self, target) ==
    IF <<self, target>> \in ExplicitEdges \cup { <<"Archived", "Inactive">> } THEN TRUE
    ELSE IF self = target THEN TRUE
    ELSE FALSE

\* mutant: the (Failed, Archived) arm is missing
CanTransitionTo_NoArchiveFromFailed(self, target) ==
    IF <<self, target>> \in ExplicitEdges \ { <<"Failed", "Archived">> } THEN TRUE
    ELSE IF self = "Archived" THEN FALSE
    ELSE IF self = target THEN TRUE
    ELSE FALSE

\* StateType::can_transition_to: the match arms in their order
CanTransitionTo(self, target) ==
    IF <<self, target>> \in ExplicitEdges THEN TRUE
    ELSE IF self = "Archived" THEN FALSE
    ELSE IF self = target THEN TRUE
    ELSE FALSE

\* --------------------------------------------------- StateTransitionError

InvalidTransition(from, to, reason) ==
    [kind |-> "InvalidTransition", from |-> from, to |-> to, reason |-> reason]

MaxFailuresExceeded(current_failures, max_allowed) ==
    [kind |-> "MaxFailuresExceeded",
     current_failures |-> current_failures, max_allowed |-> max_allowed]

Ok(value) == [kind |-> "Ok", value |-> value]

\* ------------------------------------------------------------ TriggerState

\* TriggerState::new
New(initial_state, t) ==
    [current_state    |-> initial_state,
     previous_state   |-> None,
     entered_at       |-> t,
     reason           |-> None,
     execution_count  |-> 0,
     failure_count    |-> 0,
     last_executed_at |-> None,
     metadata         |-> << >>]

\* mutant: the audit trail (previous_state) is not updated
TransitionToWithReason_NoAudit(self, target_state, reason, t) ==
    IF ~CanTransitionTo(self.current_state, target_state)
    THEN InvalidTransition(self.current_state, target_state, "Transition is not allowed")
    ELSE Ok([self EXCEPT !.current_state  = target_state,
                         !.entered_at     = t,
                         !.reason         = reason])

\* TriggerState::transition_to_with_reason
TransitionToWithReason(self, target_state, reason, t) ==
    IF ~CanTransitionTo(self.current_state, target_state)
    THEN InvalidTransition(self.current_state, target_state, "Transition is not allowed")
    ELSE Ok([self EXCEPT !.previous_state = Some(self.current_state),
                         !.current_state  = target_state,
                         !.entered_at     = t,
                         !.reason         = reason])

\* mutant: transition_to keeps the reason of the state it is called on
TransitionTo_KeepReason(self, target_state, t) ==
    TransitionToWithReason(self, target_state, self.reason, t)

\* TriggerState::transition_to
TransitionTo(self, target_state, t) ==
    TransitionToWithReason(self, target_state, None, t)

\* mutant: the failure count is not reset on success
RecordExecutionSuccess_NoReset(self, t) ==
    IF self.current_state # "Executing"
    THEN InvalidTransition(self.current_state, "Success",
                           "Can only record success from executing state")
    ELSE TransitionToWithReason(
             [self EXCEPT !.execution_count  = @ + 1,
                          !.last_executed_at = Some(t)],
             "Success", Some(Text("Execution completed successfully")), t)

\* mutant: the execution is not counted on success
RecordExecutionSuccess_NotCounted(self, t) ==
    IF self.current_state # "Executing"
    THEN InvalidTransition(self.current_state, "Success",
                           "Can only record success from executing state")
    ELSE TransitionToWithReason(
             [self EXCEPT !.failure_count    = 0,
                          !.last_executed_at = Some(t)],
             "Success", Some(Text("Execution completed successfully")), t)

\* mutant: the explicit check of the Executing state is missing
RecordExecutionSuccess_NoStateCheck(self, t) ==
    TransitionToWithReason(
        [self EXCEPT !.execution_count  = @ + 1,
                     !.failure_count    = 0,
                     !.last_executed_at = Some(t)],
        "Success", Some(Text("Execution completed successfully")), t)

\* TriggerState::record_execution_success
RecordExecutionSuccess(self, t) ==
    IF self.current_state # "Executing"
    THEN InvalidTransition(self.current_state, "Success",
                           "Can only record success from executing state")
    ELSE TransitionToWithReason(
             [self EXCEPT !.execution_count  = @ + 1,
                          !.failure_count    = 0,
                          !.last_executed_at = Some(t)],
             "Success", Some(Text("Execution completed successfully")), t)

\* mutant: a failed execution is not counted in execution_count
RecordExecutionFailure_NotCounted(self, error_message, max_failures, t) ==
    IF self.current_state # "Executing"
    THEN InvalidTransition(self.current_state, "Failed",
                           "Can only record failure from executing state")
    ELSE LET counted == [self EXCEPT !.failure_count    = @ + 1,
                                     !.last_executed_at = Some(t)]
         IN  IF counted.failure_count > max_failures
             THEN MaxFailuresExceeded(counted.failure_count, max_failures)
             ELSE TransitionToWithReason(
                      counted, "Failed",
                      Some(Text("Execution failed: ") \o error_message), t)

\* mutant: the limit is checked before the failure is counted
RecordExecutionFailure_CheckedBeforeCount(self, error_message, max_failures, t) ==
    IF self.current_state # "Executing"
    THEN InvalidTransition(self.current_state, "Failed",
                           "Can only record failure from executing state")
    ELSE LET counted == [self EXCEPT !.execution_count  = @ + 1,
                                     !.failure_count    = @ + 1,
                                     !.last_executed_at = Some(t)]
         IN  IF self.failure_count > max_failures
             THEN MaxFailuresExceeded(counted.failure_count, max_failures)
             ELSE TransitionToWithReason(
                      counted, "Failed",
                      Some(Text("Execution failed: ") \o error_message), t)

\* mutant: the limit is checked with >= instead of >
RecordExecutionFailure_OffByOne(self, error_message, max_failures, t) ==
    IF self.current_state # "Executing"
    THEN InvalidTransition(self.current_state, "Failed",
                           "Can only record failure from executing state")
    ELSE LET counted == [self EXCEPT !.execution_count  = @ + 1,
                                     !.failure_count    = @ + 1,
                                     !.last_executed_at = Some(t)]
         IN  IF counted.failure_count >= max_failures
             THEN MaxFailuresExceeded(counted.failure_count, max_failures)
             ELSE TransitionToWithReason(
                      counted, "Failed",
                      Some(Text("Execution failed: ") \o error_message), t)

\* TriggerState::record_execution_failure.  `counted` is the local `self`
\* after the three updates; on the MaxFailuresExceeded return it is dropped.
RecordExecutionFailure(self, error_message, max_failures, t) ==
    IF self.current_state # "Executing"
    THEN InvalidTransition(self.current_state, "Failed",
                           "Can only record failure from executing state")
    ELSE LET counted == [self EXCEPT !.execution_count  = @ + 1,
                                     !.failure_count    = @ + 1,
                                     !.last_executed_at = Some(t)]
         IN  IF counted.failure_count > max_failures
             THEN MaxFailuresExceeded(counted.failure_count, max_failures)
             ELSE TransitionToWithReason(
                      counted, "Failed",
                      Some(Text("Execution failed: ") \o error_message), t)

\* TriggerState::start_execution
StartExecution(self, t) ==
    TransitionToWithReason(self, "Executing", Some(Text("Execution started")), t)

\* TriggerState::suspend
Suspend(self, reason, t) ==
    TransitionToWithReason(self, "Suspended", Some(reason), t)

\* TriggerState::archive
Archive(self, reason, t) ==
    TransitionToWithReason(self, "Archived", Some(reason), t)

\* mutant: the explicit check of the Suspended state is missing
Resume_NoStateCheck(self, t) ==
    TransitionToWithReason(self, "Active", Some(Text("Resumed from suspension")), t)

\* TriggerState::resume
Resume(self, t) ==
    IF self.current_state # "Suspended"
    THEN InvalidTransition(self.current_state, "Active",
                           "Can only resume from suspended state")
    ELSE TransitionToWithReason(self, "Active", Some(Text("Resumed from suspension")), t)

\* TriggerState::validate: "Ok", or the field of the ValidationError returned
Validate(self) ==
    IF self.execution_count = 0 /\ self.last_executed_at # None
    THEN "execution_count"
    ELSE IF self.failure_count > self.execution_count
    THEN "failure_count"
    ELSE IF self.previous_state # None
            /\ ~CanTransitionTo(self.previous_state[1], self.current_state)
    THEN "state_transition"
    ELSE "Ok"

\* TriggerState::add_metadata: HashMap::insert
AddMetadata(self, key, value) ==
    [self EXCEPT !.metadata =
        [k \in (DOMAIN self.metadata) \cup {key} |->
            IF k = key THEN value ELSE self.metadata[k]]]

\* ------------------------------------------------------ inputs of the run

\* reasons passed to suspend, archive and transition_to_with_reason
Reasons == {Text("Maintenance required")}

\* error messages passed to record_execution_failure
ErrorMessages == {Text("Test error")}

MetadataKeys == {"retry_count"}

MetadataValues == {"3"}

\* ----------------------------------------- test_max_failures_exceeded

\* the limit the test passes to every record_execution_failure call
TestMaxFailures == 3

\* The test's sequence of calls, from TriggerState::new(Active): call 1, 3, 5, 7
\* is start_execution, call 2, 4, 6, 8 is record_execution_failure(_, 3).
\* ScriptStep gives the position in that sequence after one more call (-1: the
\* run is not, or no longer, that sequence).
ScriptStep(pos, op, max_failures) ==
    IF pos < 0 \/ pos >= 8 THEN -1
    ELSE IF pos % 2 = 0 /\ op = "start_execution" THEN pos + 1
    ELSE IF pos % 2 = 1 /\ op = "record_execution_failure"
            /\ max_failures = TestMaxFailures THEN pos + 1
    ELSE -1

\* ------------------------------------------------------------------ state

VARIABLES
    state,   \* the TriggerState the orchestrator holds
    now,     \* the clock Timestamp::now() reads
    last,    \* the last call: its name, arguments, receiver and what it returned
    script,  \* position in the call sequence of test_max_failures_exceeded
    recorded, \* how many record_execution_* calls have returned Ok so far
    evaluation, \* the last evaluate call: trigger, context, result, matches() calls
    triggers,   \* DummyEvaluator.triggers, the registry
    history,    \* the register_trigger / unregister_trigger calls made so far
    subject     \* a value object under construction: the input, the call made, its result

vars == <<state, now, last, script, recorded>>

\* the variables of the contracts (Part 2 and 3), which the lifecycle leaves alone
contract_vars == <<evaluation, triggers, history, subject>>

\* no value object is under construction
NoSubject == [op |-> "none"]

\* no evaluate call has been made yet
NoEvaluation ==
    [op |-> "none", trigger |-> None, context |-> "u32",
     result |-> "Ok(false)", error_of |-> 0, invoked |-> << >>]

\* DummyEvaluator { triggers: vec![] }, and nothing evaluated
ContractsIdle ==
    /\ subject = NoSubject
    /\ evaluation = NoEvaluation
    /\ triggers = << >>
    /\ history = << >>

RecordOps == {"record_execution_success", "record_execution_failure"}

\* the operations that move a trigger through its lifecycle
LifecycleOps ==
    RecordOps \cup {"transition_to", "transition_to_with_reason", "start_execution",
                    "suspend", "resume", "archive"}

\* what a call returned, without the returned TriggerState (which is `state`)
Outcome(result) ==
    IF result.kind = "Ok" THEN [kind |-> "Ok"] ELSE result

\* the orchestrator calls `op` on the value it holds and gets `result`: what
\* the call does to the variables of the lifecycle
Called(op, target, max_failures, result) ==
    /\ state' = IF result.kind = "Ok" THEN result.value ELSE state
    /\ last' = [op |-> op, target |-> target, max_failures |-> max_failures,
                pre |-> state, result |-> Outcome(result)]
    /\ script' = ScriptStep(script, op, max_failures)
    /\ recorded' = IF op \in RecordOps /\ result.kind = "Ok"
                   THEN recorded + 1 ELSE recorded
    /\ UNCHANGED now

Call(op, target, max_failures, result) ==
    /\ Called(op, target, max_failures, result)
    /\ UNCHANGED contract_vars

Init ==
    /\ ContractsIdle
    /\ now = 0
    /\ recorded = 0
    /\ \E s \in StateType :
          /\ state = New(s, 0)
          /\ last = [op |-> "new", target |-> s, max_failures |-> 0,
                     pre |-> New(s, 0), result |-> [kind |-> "Ok"]]
          /\ script = IF s = "Active" THEN 0 ELSE -1

DoTransitionTo ==
    \E target \in StateType :
        Call("transition_to", target, 0, TransitionTo(state, target, now))

DoTransitionToWithReason ==
    \E target \in StateType, reason \in Reasons :
        Call("transition_to_with_reason", target, 0,
             TransitionToWithReason(state, target, Some(reason), now))

DoRecordExecutionSuccess ==
    /\ state.execution_count < MaxExecutions
    /\ Call("record_execution_success", "Success", 0,
            RecordExecutionSuccess(state, now))

DoRecordExecutionFailure ==
    /\ state.execution_count < MaxExecutions
    /\ \E msg \in ErrorMessages, max_failures \in 0..MaxFailuresArg :
          Call("record_execution_failure", "Failed", max_failures,
               RecordExecutionFailure(state, msg, max_failures, now))

DoStartExecution ==
    Call("start_execution", "Executing", 0, StartExecution(state, now))

DoSuspend ==
    \E reason \in Reasons :
        Call("suspend", "Suspended", 0, Suspend(state, reason, now))

DoArchive ==
    \E reason \in Reasons :
        Call("archive", "Archived", 0, Archive(state, reason, now))

DoResume ==
    Call("resume", "Active", 0, Resume(state, now))

DoAddMetadata ==
    \E key \in MetadataKeys, value \in MetadataValues :
        Call("add_metadata", state.current_state, 0,
             Ok(AddMetadata(state, key, value)))

\* time passes between calls
Tick ==
    /\ now < MaxTime
    /\ now' = now + 1
    /\ UNCHANGED <<state, last, script, recorded>>
    /\ UNCHANGED contract_vars

Next ==
    \/ DoTransitionTo
    \/ DoTransitionToWithReason
    \/ DoRecordExecutionSuccess
    \/ DoRecordExecutionFailure
    \/ DoStartExecution
    \/ DoSuspend
    \/ DoArchive
    \/ DoResume
    \/ DoAddMetadata
    \/ Tick

Spec == Init /\ [][Next]_vars

\* ==================================================================
\* Part 2: the Trigger and TriggerCondition contracts (evaluate)
\* ==================================================================

\* bound on the length of the list get_conditions() returns
MaxConditions == 2

\* the types of context the conditions of the repository tell apart
Contexts == {"u32", "String"}

\* the values get_priority() returns in the repository
Priorities == {0, 1, 5}

\* what an implementation of TriggerCondition::matches does with the context:
\* AlwaysTrueCondition, StringOnlyCondition, TestCondition (u32 only), and an
\* implementation that returns Err, which the signature allows
MatchKinds == {"always_true", "is_string", "is_u32", "error"}

\* a TriggerCondition: what get_priority() returns and what matches() does
Conditions == [get_priority : Priorities, matches : MatchKinds]

\* TriggerCondition::matches
Matches(cond, context) ==
    CASE cond.matches = "always_true" -> "Ok(true)"
      [] cond.matches = "is_string"   -> IF context = "String" THEN "Ok(true)" ELSE "Ok(false)"
      [] cond.matches = "is_u32"      -> IF context = "u32" THEN "Ok(true)" ELSE "Ok(false)"
      [] cond.matches = "error"       -> "Err"

\* the lists get_conditions() may return
ConditionLists ==
    UNION { [1..n -> Conditions] : n \in 0..MaxConditions }

\* InactiveTrigger: is_active() is false, evaluate returns Ok(false), no conditions
InactiveTrigger ==
    [id |-> "inactive", is_active |-> FALSE, evaluate |-> "constant_false",
     get_conditions |-> << >>]

\* an implementation of Trigger whose evaluate is the loop of TestTrigger
\* ("Fires only if all conditions match")
TestTrigger(is_active, conditions) ==
    [id |-> "test", is_active |-> is_active, evaluate |-> "conjunction",
     get_conditions |-> conditions]

\* the implementations of Trigger evaluated
Triggers ==
    {InactiveTrigger}
      \cup {TestTrigger(a, cs) : a \in BOOLEAN, cs \in ConditionLists}

\* the loop of TestTrigger::evaluate from the i-th condition on; invoked lists
\* the positions of the conditions whose matches() has been called
RECURSIVE EvaluateFrom(_, _, _, _)
EvaluateFrom(conds, context, i, invoked) ==
    IF i > Len(conds)
    THEN [result |-> "Ok(true)", error_of |-> 0, invoked |-> invoked]
    ELSE LET m == Matches(conds[i], context)
         IN  IF m = "Err"
             THEN [result |-> "Err", error_of |-> i, invoked |-> Append(invoked, i)]
             ELSE IF m = "Ok(false)"
             THEN [result |-> "Ok(false)", error_of |-> 0, invoked |-> Append(invoked, i)]
             ELSE EvaluateFrom(conds, context, i + 1, Append(invoked, i))

\* the loop without its early return of Ok(false)
RECURSIVE EvaluateAll(_, _, _, _, _)
EvaluateAll(conds, context, i, invoked, passed) ==
    IF i > Len(conds)
    THEN [result |-> IF passed THEN "Ok(true)" ELSE "Ok(false)",
          error_of |-> 0, invoked |-> invoked]
    ELSE LET m == Matches(conds[i], context)
         IN  IF m = "Err"
             THEN [result |-> "Err", error_of |-> i, invoked |-> Append(invoked, i)]
             ELSE EvaluateAll(conds, context, i + 1, Append(invoked, i),
                              passed /\ m = "Ok(true)")

\* mutant: a condition that does not match does not stop the loop
TriggerEvaluate_NoShortCircuit(trigger, context) ==
    IF trigger.evaluate = "constant_false"
    THEN [result |-> "Ok(false)", error_of |-> 0, invoked |-> << >>]
    ELSE EvaluateAll(trigger.get_conditions, context, 1, << >>, TRUE)

\* Trigger::evaluate, as InactiveTrigger and TestTrigger implement it
TriggerEvaluate(trigger, context) ==
    IF trigger.evaluate = "constant_false"
    THEN [result |-> "Ok(false)", error_of |-> 0, invoked |-> << >>]
    ELSE EvaluateFrom(trigger.get_conditions, context, 1, << >>)

\* DummyEvaluator::evaluate: trigger.evaluate(context)
EvaluatorEvaluate(trigger, context) ==
    TriggerEvaluate(trigger, context)

\* what a call leaves in evaluation
Evaluated(op, trigger, context, r) ==
    [op |-> op, trigger |-> Some(trigger), context |-> context,
     result |-> r.result, error_of |-> r.error_of, invoked |-> r.invoked]

\* the trigger life cycle of Part 1 is not running
LifecycleIdle ==
    /\ now = 0
    /\ recorded = 0
    /\ script = -1
    /\ state = New("Inactive", 0)
    /\ last = [op |-> "new", target |-> "Inactive", max_failures |-> 0,
               pre |-> New("Inactive", 0), result |-> [kind |-> "Ok"]]

\* a trigger and a context have been built, and nothing has been called yet
InitTrigger ==
    /\ LifecycleIdle
    /\ subject = NoSubject
    /\ triggers = << >>
    /\ history = << >>
    /\ \E trigger \in Triggers, context \in Contexts :
          evaluation = [NoEvaluation EXCEPT !.trigger = Some(trigger),
                                            !.context = context]

\* trigger.evaluate(&context)
DoTriggerEvaluate ==
    /\ evaluation.op = "none"
    /\ evaluation' = Evaluated("Trigger::evaluate",
                               evaluation.trigger[1], evaluation.context,
                               TriggerEvaluate(evaluation.trigger[1], evaluation.context))
    /\ UNCHANGED <<triggers, history, subject>>
    /\ UNCHANGED vars

\* evaluator.evaluate(&trigger, &context)
DoEvaluatorEvaluate ==
    /\ evaluation.op = "none"
    /\ evaluation' = Evaluated("TriggerEvaluator::evaluate",
                               evaluation.trigger[1], evaluation.context,
                               EvaluatorEvaluate(evaluation.trigger[1], evaluation.context))
    /\ UNCHANGED <<triggers, history, subject>>
    /\ UNCHANGED vars

NextTrigger ==
    \/ DoTriggerEvaluate
    \/ DoEvaluatorEvaluate

SpecTrigger == InitTrigger /\ [][NextTrigger]_<<vars, contract_vars>>

\* ==================================================================
\* Part 3: the TriggerEvaluator contract (the registry of DummyEvaluator)
\* ==================================================================

\* bound on the number of register_trigger / unregister_trigger calls of a run
MaxCalls == 4

\* the identifiers of the triggers the tests register
TriggerIds == {"test", "inactive"}

\* the identifiers unregister_trigger is called with: those, and one never registered
UnregisterIds == TriggerIds \cup {"missing"}

\* TestCondition: matches a u32 context
TestCondition == [get_priority |-> 1, matches |-> "is_u32"]

\* the triggers registered: TestTrigger and InactiveTrigger, under either identifier
RegisteredTriggers ==
    {[TestTrigger(TRUE, <<TestCondition>>) EXCEPT !.id = i] : i \in TriggerIds}
      \cup {[InactiveTrigger EXCEPT !.id = i] : i \in TriggerIds}

\* mutant: the trigger is put in front of the registered ones
RegisterTrigger_Prepend(self, trigger) ==
    <<trigger>> \o self

\* DummyEvaluator::register_trigger: self.triggers.push(trigger)
RegisterTrigger(self, trigger) ==
    Append(self, trigger)

\* mutant: only the first trigger of that id is removed
UnregisterTrigger_FirstOnly(self, id) ==
    LET found == {i \in DOMAIN self : self[i].id = id}
    IN  IF found = {} THEN self
        ELSE LET first == CHOOSE i \in found : \A j \in found : i <= j
             IN  SubSeq(self, 1, first - 1) \o SubSeq(self, first + 1, Len(self))

\* mutant: retain keeps the triggers of that id instead of the others
UnregisterTrigger_Inverted(self, id) ==
    LET retained(t) == t.id = id
    IN  SelectSeq(self, retained)

\* DummyEvaluator::unregister_trigger: self.triggers.retain(|t| t.id() != id)
UnregisterTrigger(self, id) ==
    LET retained(t) == t.id # id
    IN  SelectSeq(self, retained)

\* DummyEvaluator::list_triggers: self.triggers.iter().map(|t| t.as_ref()).collect()
ListTriggers(self) ==
    [i \in 1..Len(self) |-> self[i]]

\* mutant: the filter on is_active() is missing
GetActiveTriggers_NoFilter(self) ==
    [i \in 1..Len(self) |-> self[i]]

\* DummyEvaluator::get_active_triggers:
\* self.triggers.iter().filter(|t| t.is_active()).map(|t| t.as_ref()).collect()
GetActiveTriggers(self) ==
    LET active(t) == t.is_active
    IN  SelectSeq(self, active)

InitRegistry ==
    /\ LifecycleIdle
    /\ ContractsIdle

\* evaluator.register_trigger(Box::new(trigger)), which returns Ok(())
DoRegisterTrigger ==
    /\ Len(history) < MaxCalls
    /\ \E trigger \in RegisteredTriggers :
          /\ triggers' = RegisterTrigger(triggers, trigger)
          /\ history' = Append(history, [op |-> "register_trigger",
                                         id |-> trigger.id,
                                         trigger |-> Some(trigger),
                                         result |-> "Ok(())"])
    /\ UNCHANGED <<evaluation, subject>>
    /\ UNCHANGED vars

\* evaluator.unregister_trigger(id), which returns Ok(())
DoUnregisterTrigger ==
    /\ Len(history) < MaxCalls
    /\ \E id \in UnregisterIds :
          /\ triggers' = UnregisterTrigger(triggers, id)
          /\ history' = Append(history, [op |-> "unregister_trigger",
                                         id |-> id,
                                         trigger |-> None,
                                         result |-> "Ok(())"])
    /\ UNCHANGED <<evaluation, subject>>
    /\ UNCHANGED vars

NextRegistry ==
    \/ DoRegisterTrigger
    \/ DoUnregisterTrigger

SpecRegistry == InitRegistry /\ [][NextRegistry]_<<vars, contract_vars>>

\* ==================================================================
\* Part 4: TimerExpression (value_objects/trigger_condition.rs)
\* ==================================================================

\* A String is a sequence of characters, a character a one-letter string;
\* "arabic_5" stands for U+0665, a decimal digit that is not an ASCII digit.

\* a u64 is kept as its bytes, least significant first; products are computed
\* on ExactLimbs bytes so that what overflows 64 bits can be told
LimbBase == 256

U64Limbs == 8

ExactLimbs == 11

AsciiDigits == {"0", "1", "2", "3", "4", "5", "6", "7", "8", "9"}

\* the characters the class \d of the regex crate matches (Unicode Nd)
RegexDigits == AsciiDigits \cup {"arabic_5"}

DigitValue(c) ==
    CASE c = "0" -> 0 [] c = "1" -> 1 [] c = "2" -> 2 [] c = "3" -> 3
      [] c = "4" -> 4 [] c = "5" -> 5 [] c = "6" -> 6 [] c = "7" -> 7
      [] c = "8" -> 8 [] c = "9" -> 9

TimeUnits == {"s", "m", "h", "d"}

ZeroLimbs == [i \in 1..ExactLimbs |-> 0]

\* x * k + carry, from byte i on
RECURSIVE MulAddFrom(_, _, _, _)
MulAddFrom(x, k, carry, i) ==
    IF i > Len(x) THEN << >>
    ELSE LET v == x[i] * k + carry
         IN  <<v % LimbBase>> \o MulAddFrom(x, k, v \div LimbBase, i + 1)

MulAdd(x, k, a) == MulAddFrom(x, k, a, 1)

\* the value fits a u64
Fits64(x) == \A i \in (U64Limbs + 1)..ExactLimbs : x[i] = 0

\* what a wrapping u64 operation keeps of the exact result
Wrap64(x) == [i \in 1..ExactLimbs |-> IF i <= U64Limbs THEN x[i] ELSE 0]

IsZero(x) == \A i \in 1..ExactLimbs : x[i] = 0

\* x > limit, for a limit below 2^24
GreaterThan(x, limit) ==
    \/ \E i \in 4..ExactLimbs : x[i] # 0
    \/ x[1] + x[2] * LimbBase + x[3] * LimbBase * LimbBase > limit

\* the captures of ^(\d+)(s|m|h|d)$ on the string, or None
Captures(duration_str) ==
    IF /\ Len(duration_str) >= 2
       /\ duration_str[Len(duration_str)] \in TimeUnits
       /\ \A i \in 1..(Len(duration_str) - 1) : duration_str[i] \in RegexDigits
    THEN Some([number |-> SubSeq(duration_str, 1, Len(duration_str) - 1),
               unit   |-> duration_str[Len(duration_str)]])
    ELSE None

\* str::parse::<u64> from the i-th character on: each step is checked_mul(10)
\* and checked_add(digit); a character that is no ASCII digit is an error
RECURSIVE ParseU64From(_, _, _)
ParseU64From(text, i, acc) ==
    IF i > Len(text) THEN [ok |-> TRUE, value |-> acc]
    ELSE IF text[i] \notin AsciiDigits THEN [ok |-> FALSE, value |-> ZeroLimbs]
    ELSE LET next == MulAdd(acc, 10, DigitValue(text[i]))
         IN  IF ~Fits64(next) THEN [ok |-> FALSE, value |-> ZeroLimbs]
             ELSE ParseU64From(text, i + 1, next)

ParseU64(text) ==
    IF Len(text) = 0 THEN [ok |-> FALSE, value |-> ZeroLimbs]
    ELSE ParseU64From(text, 1, ZeroLimbs)

SecondsPerUnit(unit) ==
    CASE unit = "s" -> 1 [] unit = "m" -> 60 [] unit = "h" -> 3600 [] unit = "d" -> 86400

ThirtyDays == 86400 * 30

TimerError(reason) ==
    [kind |-> "ValidationError", reason |-> reason, secs |-> ZeroLimbs]

TimerPanic ==
    [kind |-> "panic", reason |-> "attempt to multiply with overflow", secs |-> ZeroLimbs]

TimerOk(secs) ==
    [kind |-> "Ok", reason |-> "", secs |-> secs]

\* the limits checked after the multiplication
CheckLimits(secs) ==
    IF IsZero(secs) THEN TimerError("Duration must be greater than 0")
    ELSE IF GreaterThan(secs, ThirtyDays) THEN TimerError("Duration cannot exceed 30 days")
    ELSE TimerOk(secs)

\* TimerExpression::parse_duration. `number * 60` (3600, 86400) is a u64
\* multiplication: when it overflows, a build with overflow checks (debug)
\* panics and a build without (release) keeps the low 64 bits.
ParseDuration(duration_str, build) ==
    LET captures == Captures(duration_str)
    IN  IF captures = None
        THEN TimerError("Duration must be in format: number + unit (s|m|h|d)")
        ELSE LET number == ParseU64(captures[1].number)
             IN  IF ~number.ok THEN TimerError("Invalid number in duration")
                 ELSE LET product == MulAdd(number.value,
                                            SecondsPerUnit(captures[1].unit), 0)
                      IN  IF Fits64(product) THEN CheckLimits(product)
                          ELSE IF build = "debug" THEN TimerPanic
                          ELSE CheckLimits(Wrap64(product))

\* TimerExpression::new
TimerExpressionNew(duration, build) ==
    ParseDuration(duration, build)

\* the texts put before the unit
NumberTexts ==
    {<< >>,
     <<"0">>,
     <<"0", "0">>,
     <<"1">>,
     <<"5">>,
     <<"0", "5">>,
     <<"1", "0">>,
     <<"3", "0">>,
     <<"3", "1">>,
     <<"7", "2", "0">>,
     <<"7", "2", "1">>,
     <<"4", "3", "2", "0", "0">>,
     <<"4", "3", "2", "0", "1">>,
     <<"2", "5", "9", "2", "0", "0", "0">>,
     <<"2", "5", "9", "2", "0", "0", "1">>,
     <<"2", "1", "3", "5", "0", "3", "9", "8", "2", "3", "3", "4", "6", "0", "1">>,
     <<"2", "1", "3", "5", "0", "3", "9", "8", "2", "3", "3", "4", "6", "0", "2">>,
     <<"5", "1", "2", "4", "0", "9", "5", "5", "7", "6", "0", "3", "0", "4", "3", "1">>,
     <<"5", "1", "2", "4", "0", "9", "5", "5", "7", "6", "0", "3", "0", "4", "3", "2">>,
     <<"3", "0", "7", "4", "4", "5", "7", "3", "4", "5", "6", "1", "8", "2", "5", "8", "6", "0">>,
     <<"3", "0", "7", "4", "4", "5", "7", "3", "4", "5", "6", "1", "8", "2", "5", "8", "6", "1">>,
     <<"1", "8", "4", "4", "6", "7", "4", "4", "0", "7", "3", "7", "0", "9", "5", "5", "1", "6", "1", "5">>,
     <<"1", "8", "4", "4", "6", "7", "4", "4", "0", "7", "3", "7", "0", "9", "5", "5", "1", "6", "1", "6">>,
     <<"9", "9", "9", "9", "9", "9", "9", "9", "9", "9", "9", "9", "9", "9", "9", "9", "9", "9", "9", "9">>,
     <<"-", "5">>,
     <<"5", ".", "5">>,
     <<"5", " ">>,
     <<"arabic_5">>, <<"1", "arabic_5">>}

\* the texts put after the number
UnitTexts ==
    {<< >>, <<"s">>, <<"m">>, <<"h">>, <<"d">>, <<"x">>, <<"S">>, <<"m", "s">>}

\* the strings TimerExpression::new is called with
TimerInputs == {n \o u : n \in NumberTexts, u \in UnitTexts}

\* whether the build checks integer overflow
Builds == {"debug", "release"}

\* the other contracts are not in use
OthersIdle ==
    /\ LifecycleIdle
    /\ evaluation = NoEvaluation
    /\ triggers = << >>
    /\ history = << >>

InitTimer ==
    /\ OthersIdle
    /\ \E duration \in TimerInputs, build \in Builds :
          subject = [op |-> "none", input |-> duration, build |-> build,
                     result |-> TimerError("")]

\* TimerExpression::new(duration)
DoTimerExpressionNew ==
    /\ subject.op = "none"
    /\ subject' = [subject EXCEPT
                     !.op = "TimerExpression::new",
                     !.result = TimerExpressionNew(subject.input, subject.build)]
    /\ UNCHANGED <<evaluation, triggers, history>>
    /\ UNCHANGED vars

NextTimer ==
    \/ DoTimerExpressionNew

SpecTimer == InitTimer /\ [][NextTimer]_<<vars, contract_vars>>

\* ==================================================================
\* Part 5: EventPattern (value_objects/trigger_condition.rs)
\* ==================================================================

\* bounds on the lengths of the pattern and of the event type
MaxPatternLen == 3

MaxEventLen == 3

\* the characters of patterns and event types
PatternChars == {"a", "b", "*"}

\* the strings of at most n characters
Strings(n) == UNION { [1..k -> PatternChars] : k \in 0..n }

\* str::contains(char)
Contains(str, c) == \E i \in DOMAIN str : str[i] = c

\* str::split(char).collect(): the pieces between the occurrences of c
RECURSIVE SplitFrom(_, _, _, _)
SplitFrom(str, c, i, piece) ==
    IF i > Len(str) THEN <<piece>>
    ELSE IF str[i] = c THEN <<piece>> \o SplitFrom(str, c, i + 1, << >>)
    ELSE SplitFrom(str, c, i + 1, Append(piece, str[i]))

Split(str, c) == SplitFrom(str, c, 1, << >>)

\* str::starts_with
StartsWith(str, prefix) ==
    /\ Len(prefix) <= Len(str)
    /\ SubSeq(str, 1, Len(prefix)) = prefix

\* str::ends_with
EndsWith(str, suffix) ==
    /\ Len(suffix) <= Len(str)
    /\ SubSeq(str, Len(str) - Len(suffix) + 1, Len(str)) = suffix

\* EventPattern::new: Ok for a pattern that is not empty (nor longer than 255)
EventPatternNew(pattern) ==
    IF Len(pattern) = 0
    THEN [kind |-> "ValidationError", pattern |-> pattern, use_regex |-> FALSE]
    ELSE [kind |-> "Ok", pattern |-> pattern, use_regex |-> FALSE]

\* EventPattern::matches, for a pattern built by EventPattern::new
EventPatternMatches(self, event_type) ==
    IF Contains(self.pattern, "*")
    THEN LET pattern_parts == Split(self.pattern, "*")
         IN  IF Len(pattern_parts) = 2
             THEN /\ StartsWith(event_type, pattern_parts[1])
                  /\ EndsWith(event_type, pattern_parts[2])
             ELSE FALSE
    ELSE self.pattern = event_type

\* a pattern has been built by EventPattern::new and an event type is at hand
InitEventPattern ==
    /\ OthersIdle
    /\ \E pattern \in Strings(MaxPatternLen), event_type \in Strings(MaxEventLen) :
          /\ EventPatternNew(pattern).kind = "Ok"
          /\ subject = [op |-> "none", self |-> EventPatternNew(pattern),
                        event_type |-> event_type, result |-> FALSE]

\* pattern.matches(event_type)
DoEventPatternMatches ==
    /\ subject.op = "none"
    /\ subject' = [subject EXCEPT
                     !.op = "EventPattern::matches",
                     !.result = EventPatternMatches(subject.self, subject.event_type)]
    /\ UNCHANGED <<evaluation, triggers, history>>
    /\ UNCHANGED vars

NextEventPattern ==
    \/ DoEventPatternMatches

SpecEventPattern == InitEventPattern /\ [][NextEventPattern]_<<vars, contract_vars>>

\* ==================================================================
\* Part 6: TriggerConfig (value_objects/trigger_config.rs)
\* ==================================================================

\* bound on the number of ordinary metadata entries a configuration is given
MaxPlainEntries == 51

\* A metadata key is known by a name and its length, a value by its length.
\* The ordinary keys "k1", "k2", ... are short and are inserted in this order.
PlainKey(n) == [name |-> n, len |-> 2]

\* the keys that the limits are about: the empty key, a key of 100 and one of
\* 101 characters (all ASCII, so that len() counts characters)
EmptyKey == [name |-> 0, len |-> 0]

LongestKey == [name |-> -1, len |-> 100]

TooLongKey == [name |-> -2, len |-> 101]

\* a short key that is given a value of 1001 characters
BigValueKey == [name |-> -3, len |-> 3]

\* TriggerConfig::new for a name and a condition that are valid
TriggerConfigNew ==
    [name_valid |-> TRUE, condition_valid |-> TRUE, metadata |-> << >>,
     enabled |-> TRUE, max_executions |-> None, timeout_seconds |-> Some(30)]

\* HashMap::insert
Insert(map, key, value) ==
    [k \in DOMAIN map \cup {key} |-> IF k = key THEN value ELSE map[k]]

\* TriggerConfig::with_metadata; value is the length of the value string
WithMetadata(self, key, value) ==
    [self EXCEPT !.metadata = Insert(self.metadata, key, value)]

\* TriggerConfig::with_max_executions
WithMaxExecutions(self, max_executions) ==
    [self EXCEPT !.max_executions = Some(max_executions)]

\* TriggerConfig::with_timeout_seconds
WithTimeoutSeconds(self, timeout_seconds) ==
    [self EXCEPT !.timeout_seconds = Some(timeout_seconds)]

\* the check of one metadata entry in the loop of validate: "Ok" or the field
\* of the error
ValidateEntry(key, value) ==
    IF key.len = 0 THEN "metadata_key"
    ELSE IF key.len > 100 THEN "metadata_key"
    ELSE IF value > 1000 THEN "metadata_value"
    ELSE "Ok"

\* TriggerConfig::validate: the set of results it may return, "Ok" or the field
\* of the error. The loop over the HashMap returns at the first entry that
\* fails, and the order in which a HashMap is iterated is not determined.
ConfigValidate(self) ==
    IF ~self.name_valid THEN {"name"}
    ELSE IF ~self.condition_valid THEN {"condition"}
    ELSE IF self.timeout_seconds # None /\ self.timeout_seconds[1] = 0
    THEN {"timeout_seconds"}
    ELSE IF self.timeout_seconds # None /\ self.timeout_seconds[1] > 3600
    THEN {"timeout_seconds"}
    ELSE IF self.max_executions # None /\ self.max_executions[1] = 0
    THEN {"max_executions"}
    ELSE LET failing == {k \in DOMAIN self.metadata :
                            ValidateEntry(k, self.metadata[k]) # "Ok"}
         IN  IF failing = {} THEN {"Ok"}
             ELSE {ValidateEntry(k, self.metadata[k]) : k \in failing}

\* the arguments the with_* methods are called with
TimeoutArgs == {0, 1, 3600, 3601}

MaxExecutionsArgs == {0, 1}

OddEntries ==
    {<<EmptyKey, 1>>, <<LongestKey, 1000>>, <<TooLongKey, 1>>, <<BigValueKey, 1001>>}

PlainCount(self) == Cardinality({k \in DOMAIN self.metadata : k.name > 0})

InitConfig ==
    /\ OthersIdle
    /\ subject = [op |-> "new", config |-> TriggerConfigNew, result |-> "Ok"]

\* a with_* method has returned the configuration
Built(config) ==
    subject' = [op |-> "with", config |-> config, result |-> "Ok"]

\* config.with_metadata(key, value) with the next ordinary key
DoWithMetadataPlain ==
    /\ PlainCount(subject.config) < MaxPlainEntries
    /\ Built(
             WithMetadata(subject.config, PlainKey(PlainCount(subject.config) + 1), 1))
    /\ UNCHANGED <<evaluation, triggers, history>>
    /\ UNCHANGED vars

\* config.with_metadata(key, value) with a key or a value at or over a limit
DoWithMetadataOdd ==
    /\ \E e \in OddEntries :
          /\ e[1] \notin DOMAIN subject.config.metadata
          /\ Built(WithMetadata(subject.config, e[1], e[2]))
    /\ UNCHANGED <<evaluation, triggers, history>>
    /\ UNCHANGED vars

\* config.with_max_executions(n)
DoWithMaxExecutions ==
    /\ subject.config.max_executions = None
    /\ \E n \in MaxExecutionsArgs :
          Built(WithMaxExecutions(subject.config, n))
    /\ UNCHANGED <<evaluation, triggers, history>>
    /\ UNCHANGED vars

\* config.with_timeout_seconds(n)
DoWithTimeoutSeconds ==
    /\ subject.config.timeout_seconds = Some(30)
    /\ \E n \in TimeoutArgs :
          Built(WithTimeoutSeconds(subject.config, n))
    /\ UNCHANGED <<evaluation, triggers, history>>
    /\ UNCHANGED vars

\* config.validate()
DoConfigValidate ==
    /\ subject.op # "validate"
    /\ \E result \in ConfigValidate(subject.config) :
          subject' = [op |-> "validate", config |-> subject.config, result |-> result]
    /\ UNCHANGED <<evaluation, triggers, history>>
    /\ UNCHANGED vars

NextConfig ==
    \/ DoWithMetadataPlain
    \/ DoWithMetadataOdd
    \/ DoWithMaxExecutions
    \/ DoWithTimeoutSeconds
    \/ DoConfigValidate

SpecConfig == InitConfig /\ [][NextConfig]_<<vars, contract_vars>>

\* ==================================================================
\* Part 7: TriggerCondition, the condition tree (value_objects/trigger_condition.rs)
\* ==================================================================

\* bound on the number of leaves of a condition tree
MaxLeaves == 3

\* a node of the tree; Box<TriggerCondition> is Some(node), a leaf has no child.
\* text is the duration or pattern string of a leaf, parsed whether the
\* TimerExpression holds its parsed_duration (it does after new, it does not
\* after deserialization, which skips the field and checks nothing)
Node(kind, text, parsed, left, operator, right) ==
    [kind |-> kind, text |-> text, parsed |-> parsed,
     left |-> left, operator |-> operator, right |-> right]

Always == Node("Always", << >>, FALSE, None, "none", None)

Never == Node("Never", << >>, FALSE, None, "none", None)

\* TriggerCondition::Timer(TimerExpression::new(duration)), for a duration accepted
TimerNew(duration) == Node("Timer", duration, TRUE, None, "none", None)

\* TriggerCondition::Timer of a deserialized TimerExpression
TimerDeserialized(duration) == Node("Timer", duration, FALSE, None, "none", None)

\* TriggerCondition::Event of a deserialized EventPattern (use_regex false)
EventDeserialized(pattern) == Node("Event", pattern, FALSE, None, "none", None)

\* TriggerCondition::Composite { left, operator, right }
Composite(left, operator, right) ==
    Node("Composite", << >>, FALSE, Some(left), operator, Some(right))

LogicalOperator == {"And", "Or", "Not"}

\* TriggerCondition::and, or, not
And(self, other) == Composite(self, "And", other)

Or(self, other) == Composite(self, "Or", other)

Not(self) == Composite(self, "Not", Always)

\* the leaves the trees are built from: two that are valid whatever happens,
\* a valid timer, and a timer and an event pattern that are not valid
Leaves ==
    {Always, Never, TimerNew(<<"5", "s">>),
     TimerDeserialized(<<"0", "s">>), EventDeserialized(<< >>)}

\* the trees of exactly n leaves
RECURSIVE TreesOf(_)
TreesOf(n) ==
    IF n = 1 THEN Leaves
    ELSE UNION { {Composite(l, op, r) : l \in TreesOf(k), op \in LogicalOperator,
                                         r \in TreesOf(n - k)} : k \in 1..(n - 1) }

\* TimerExpression::validate: self.duration()?, which parses the string again
\* only if no parsed duration is held
TimerValidate(self) ==
    IF self.parsed THEN <<"Ok">>
    ELSE IF ParseDuration(self.text, "debug").kind = "Ok" THEN <<"Ok">>
    ELSE <<"timer_duration">> \o self.text

\* EventPattern::validate for a pattern without regex: validate_pattern
EventValidate(self) ==
    IF Len(self.text) = 0 THEN <<"event_pattern", "EmptyValue">>
    ELSE IF Len(self.text) > 255 THEN <<"event_pattern", "TooLong">>
    ELSE <<"Ok">>

\* mutant: a composite validates its right child before its left child
RECURSIVE ConditionValidate_RightFirst(_)
ConditionValidate_RightFirst(self) ==
    CASE self.kind \in {"Always", "Never"} -> [result |-> <<"Ok">>, visited |-> <<self>>]
      [] self.kind = "Timer" -> [result |-> TimerValidate(self), visited |-> <<self>>]
      [] self.kind = "Event" -> [result |-> EventValidate(self), visited |-> <<self>>]
      [] self.kind = "Composite" ->
            LET right == ConditionValidate_RightFirst(self.right[1])
            IN  IF right.result # <<"Ok">> THEN right
                ELSE LET left == ConditionValidate_RightFirst(self.left[1])
                     IN  [result |-> left.result,
                          visited |-> right.visited \o left.visited]

\* TriggerCondition::validate: the result, <<"Ok">> or the error's field and
\* value, and the leaves validated, in the order of their validation
RECURSIVE ConditionValidate(_)
ConditionValidate(self) ==
    CASE self.kind \in {"Always", "Never"} -> [result |-> <<"Ok">>, visited |-> <<self>>]
      [] self.kind = "Timer" -> [result |-> TimerValidate(self), visited |-> <<self>>]
      [] self.kind = "Event" -> [result |-> EventValidate(self), visited |-> <<self>>]
      [] self.kind = "Composite" ->
            LET left == ConditionValidate(self.left[1])
            IN  IF left.result # <<"Ok">> THEN left
                ELSE LET right == ConditionValidate(self.right[1])
                     IN  [result |-> right.result,
                          visited |-> left.visited \o right.visited]

\* Display for TriggerCondition: the pieces written
RECURSIVE ConditionDisplay(_)
ConditionDisplay(self) ==
    CASE self.kind = "Always" -> <<"Always">>
      [] self.kind = "Never" -> <<"Never">>
      [] self.kind = "Timer" -> <<"Timer(">> \o self.text \o <<")">>
      [] self.kind = "Event" -> <<"Event(">> \o self.text \o <<")">>
      [] self.kind = "Composite" ->
            LET op_str == CASE self.operator = "And" -> "AND"
                            [] self.operator = "Or" -> "OR"
                            [] self.operator = "Not" -> "NOT"
            IN  IF self.operator = "Not"
                THEN <<"NOT ">> \o ConditionDisplay(self.left[1])
                ELSE <<"(">> \o ConditionDisplay(self.left[1]) \o <<" ", op_str, " ">>
                       \o ConditionDisplay(self.right[1]) \o <<")">>

\* nothing has been called on the condition yet
Unvalidated(condition) ==
    [op |-> "none", condition |-> condition,
     result |-> <<"Ok">>, visited |-> << >>, display |-> << >>]

\* a condition tree of at most MaxLeaves leaves has been built: a leaf, or a
\* Composite of two smaller trees
InitCondition ==
    /\ OthersIdle
    /\ \/ \E leaf \in Leaves : subject = Unvalidated(leaf)
       \/ \E n \in 2..MaxLeaves, operator \in LogicalOperator :
             \E k \in 1..(n - 1) :
                \E left \in TreesOf(k), right \in TreesOf(n - k) :
                   subject = Unvalidated(Composite(left, operator, right))

\* condition.validate()
DoConditionValidate ==
    /\ subject.op = "none"
    /\ subject' = [subject EXCEPT
                     !.op = "validate",
                     !.result = ConditionValidate(subject.condition).result,
                     !.visited = ConditionValidate(subject.condition).visited]
    /\ UNCHANGED <<evaluation, triggers, history>>
    /\ UNCHANGED vars

\* format!("{}", condition)
DoConditionDisplay ==
    /\ subject.op = "none"
    /\ subject' = [subject EXCEPT
                     !.op = "display",
                     !.display = ConditionDisplay(subject.condition)]
    /\ UNCHANGED <<evaluation, triggers, history>>
    /\ UNCHANGED vars

NextCondition ==
    \/ DoConditionValidate
    \/ DoConditionDisplay

SpecCondition == InitCondition /\ [][NextCondition]_<<vars, contract_vars>>

\* ==================================================================
\* Part 8: TriggerName (value_objects/trigger_name.rs)
\* ==================================================================

\* bound on the length of the names enumerated character by character
MaxNameLen == 2

MIN_LENGTH == 1

MAX_LENGTH == 64

LowerLetters ==
    <<"a", "b", "c", "d", "e", "f", "g", "h", "i", "j", "k", "l", "m",
      "n", "o", "p", "q", "r", "s", "t", "u", "v", "w", "x", "y", "z">>

UpperLetters ==
    <<"A", "B", "C", "D", "E", "F", "G", "H", "I", "J", "K", "L", "M",
      "N", "O", "P", "Q", "R", "S", "T", "U", "V", "W", "X", "Y", "Z">>

Range(seq) == {seq[i] : i \in DOMAIN seq}

AsciiLetters == Range(LowerLetters) \cup Range(UpperLetters)

\* characters outside ASCII: a letter of two bytes, and the Kelvin sign, a
\* letter of three bytes whose lowercase is the ASCII letter k
TwoByteLetter == "e_acute"

KelvinSign == "kelvin_sign"

\* char::is_alphabetic
IsAlphabetic(c) == c \in AsciiLetters \cup {TwoByteLetter, KelvinSign}

\* the length of a character in UTF-8
Utf8Len(c) ==
    CASE c = TwoByteLetter -> 2
      [] c = KelvinSign -> 3
      [] OTHER -> 1

\* str::len: the length in bytes
RECURSIVE ByteLenFrom(_, _)
ByteLenFrom(name, i) ==
    IF i > Len(name) THEN 0 ELSE Utf8Len(name[i]) + ByteLenFrom(name, i + 1)

ByteLen(name) == ByteLenFrom(name, 1)

\* char::to_lowercase
CharToLowercase(c) ==
    IF c \in Range(UpperLetters)
    THEN LowerLetters[CHOOSE i \in DOMAIN UpperLetters : UpperLetters[i] = c]
    ELSE IF c = KelvinSign THEN "k"
    ELSE c

\* str::to_lowercase
ToLowercase(name) == [i \in DOMAIN name |-> CharToLowercase(name[i])]

\* the class [a-zA-Z0-9_-] of valid_chars_regex
ValidChars == AsciiLetters \cup AsciiDigits \cup {"_", "-"}

NameError(kind) == <<kind>>

\* TriggerName::validate_characters: ^[a-zA-Z0-9_-]+$ matches the whole name
ValidateCharacters(name) ==
    IF Len(name) >= 1 /\ \A i \in DOMAIN name : name[i] \in ValidChars
    THEN <<"Ok">>
    ELSE NameError("InvalidValue: characters")

\* TriggerName::validate_first_character
ValidateFirstCharacter(name) ==
    LET first_char == name[1]
    IN  IF ~IsAlphabetic(first_char) /\ first_char # "_"
        THEN NameError("InvalidValue: first character")
        ELSE <<"Ok">>

\* the reserved_names of TriggerName::validate_not_reserved
ReservedNames ==
    {<<"s", "y", "s", "t", "e", "m">>, <<"a", "d", "m", "i", "n">>, <<"r", "o", "o", "t">>, <<"d", "e", "f", "a", "u", "l", "t">>, <<"c", "o", "n", "f", "i", "g">>,
     <<"h", "e", "x", "a", "f", "n">>, <<"h", "e", "x", "a">>, <<"t", "r", "i", "g", "g", "e", "r">>, <<"c", "o", "n", "d", "i", "t", "i", "o", "n">>, <<"p", "i", "p", "e", "l", "i", "n", "e">>,
     <<"f", "e", "e", "d">>, <<"f", "i", "l", "t", "e", "r">>, <<"f", "o", "r", "m", "a", "t">>, <<"f", "u", "n", "c", "t", "i", "o", "n">>, <<"f", "o", "r", "w", "a", "r", "d">>, <<"f", "e", "e", "d", "b", "a", "c", "k">>,
     <<"s", "t", "o", "r", "e">>, <<"c", "a", "s", "t">>, <<"r", "u", "n">>, <<"w", "a", "t", "c", "h">>, <<"b", "r", "i", "d", "g", "e">>, <<"c", "o", "r", "e">>,
     <<"n", "u", "l", "l">>, <<"u", "n", "d", "e", "f", "i", "n", "e", "d">>, <<"t", "r", "u", "e">>, <<"f", "a", "l", "s", "e">>, <<"i", "f">>, <<"e", "l", "s", "e">>,
     <<"f", "o", "r">>, <<"w", "h", "i", "l", "e">>, <<"r", "e", "t", "u", "r", "n">>, <<"f", "u", "n", "c", "t", "i", "o", "n">>, <<"c", "l", "a", "s", "s">>, <<"s", "t", "r", "u", "c", "t">>,
     <<"t", "i", "m", "e", "r">>, <<"s", "c", "h", "e", "d", "u", "l", "e">>, <<"c", "r", "o", "n">>, <<"i", "n", "t", "e", "r", "v", "a", "l">>, <<"d", "e", "l", "a", "y">>,
     <<"e", "v", "e", "n", "t">>, <<"e", "m", "i", "t">>, <<"p", "u", "b", "l", "i", "s", "h">>, <<"s", "u", "b", "s", "c", "r", "i", "b", "e">>, <<"t", "o", "p", "i", "c">>}

\* mutant: the reserved names are compared without lowercasing the name
ValidateNotReserved_CaseSensitive(name) ==
    IF name \in ReservedNames THEN NameError("InvalidValue: reserved") ELSE <<"Ok">>

\* TriggerName::validate_not_reserved
ValidateNotReserved(name) ==
    LET lowercase_name == ToLowercase(name)
    IN  IF lowercase_name \in ReservedNames
        THEN NameError("InvalidValue: reserved")
        ELSE <<"Ok">>

\* TriggerName::validate_name
ValidateName(name) ==
    IF Len(name) = 0 THEN NameError("EmptyValue")
    ELSE IF ByteLen(name) < MIN_LENGTH THEN NameError("TooShort")
    ELSE IF ByteLen(name) > MAX_LENGTH THEN NameError("TooLong")
    ELSE IF ValidateCharacters(name) # <<"Ok">> THEN ValidateCharacters(name)
    ELSE IF ValidateFirstCharacter(name) # <<"Ok">> THEN ValidateFirstCharacter(name)
    ELSE ValidateNotReserved(name)

\* TriggerName::new: Ok(Self(name_str)) or the error of validate_name
TriggerNameNew(name) ==
    [result |-> ValidateName(name),
     value  |-> IF ValidateName(name) = <<"Ok">> THEN Some(name) ELSE None]

\* the characters the short names are made of
NameChars == {"a", "Z", "1", "-", "_", " ", "@", "\n", TwoByteLetter, KelvinSign}

ShortNames == UNION { [1..n -> NameChars] : n \in 0..MaxNameLen }

Repeat(c, n) == [i \in 1..n |-> c]

\* names at the limits of the length, in characters and in bytes
LongNames ==
    {Repeat("a", MAX_LENGTH - 1), Repeat("a", MAX_LENGTH), Repeat("a", MAX_LENGTH + 1),
     Repeat("_", MAX_LENGTH), <<"1">> \o Repeat("a", MAX_LENGTH),
     Repeat(TwoByteLetter, MAX_LENGTH \div 2), Repeat(TwoByteLetter, MAX_LENGTH),
     Repeat("a", MAX_LENGTH - 1) \o <<"\n">>}

\* reserved names, in other cases, and names next to a reserved one
WordNames ==
    {<<"s", "y", "s", "t", "e", "m">>, <<"S", "Y", "S", "T", "E", "M">>, <<"S", "y", "s", "t", "e", "m">>, <<"c", "o", "n", "f", "i", "g", "s">>, <<"c", "o", "n", "f", "i">>,
     <<"h", "e", "x", "a", "f", "n">>, <<"H", "E", "X", "A", "F", "N">>, <<"H", "e", "x", "a", "f", "n">>, <<"p", "i", "p", "e", "l", "i", "n", "e", "s">>, <<"p", "i", "p", "e", "l", "i", "n">>,
     <<"f", "e", "e", "d">>, <<"F", "E", "E", "D">>, <<"F", "e", "e", "d">>, <<"f", "e", "e", "d", "b", "a", "c", "k", "s">>, <<"f", "e", "e", "d", "b", "a", "c">>,
     <<"s", "t", "o", "r", "e">>, <<"S", "T", "O", "R", "E">>, <<"S", "t", "o", "r", "e">>, <<"c", "o", "r", "e", "s">>, <<"c", "o", "r">>,
     <<"n", "u", "l", "l">>, <<"N", "U", "L", "L">>, <<"N", "u", "l", "l">>, <<"e", "l", "s", "e", "s">>, <<"e", "l", "s">>,
     <<"f", "o", "r">>, <<"F", "O", "R">>, <<"F", "o", "r">>, <<"s", "t", "r", "u", "c", "t", "s">>, <<"s", "t", "r", "u", "c">>,
     <<"t", "i", "m", "e", "r">>, <<"T", "I", "M", "E", "R">>, <<"T", "i", "m", "e", "r">>, <<"d", "e", "l", "a", "y", "s">>, <<"d", "e", "l", "a">>,
     <<"e", "v", "e", "n", "t">>, <<"E", "V", "E", "N", "T">>, <<"E", "v", "e", "n", "t">>, <<"t", "o", "p", "i", "c", "s">>, <<"t", "o", "p", "i">>,
     <<"1", "2", "3", "x">>, <<"b", "a", "d", " ", "n", "a", "m", "e">>,
     <<"_", "o", "k", "-", "1">>, <<"s", "y", "s", "t", "e", "m", "\n">>,
     <<KelvinSign, "e", "l", "v", "i", "n">>, <<"L", "I", "N", KelvinSign>>}

NameInputs == ShortNames \cup LongNames \cup WordNames \cup ReservedNames

\* a string has been chosen
InitName ==
    /\ OthersIdle
    /\ \E name \in NameInputs :
          subject = [op |-> "none", name |-> name, result |-> <<"Ok">>, value |-> None]

\* TriggerName::new(name)
DoTriggerNameNew ==
    /\ subject.op = "none"
    /\ subject' = [subject EXCEPT
                     !.op = "new",
                     !.result = TriggerNameNew(subject.name).result,
                     !.value = TriggerNameNew(subject.name).value]
    /\ UNCHANGED <<evaluation, triggers, history>>
    /\ UNCHANGED vars

\* char::is_uppercase
IsUppercase(c) == c \in Range(UpperLetters) \cup {KelvinSign}

\* TriggerName::is_snake_case
IsSnakeCase(self) == ~(\E i \in DOMAIN self : IsUppercase(self[i]) \/ self[i] = "-")

\* TriggerName::is_kebab_case
IsKebabCase(self) == ~(\E i \in DOMAIN self : IsUppercase(self[i]) \/ self[i] = "_")

\* TriggerName::to_snake_case: '-' becomes '_', every other character its
\* lowercase, and the result goes through TriggerName::new
ToSnakeCase(self) ==
    TriggerNameNew([i \in DOMAIN self |->
                       IF self[i] = "-" THEN "_" ELSE CharToLowercase(self[i])])

\* TriggerName::to_kebab_case: '_' becomes '-'
ToKebabCase(self) ==
    TriggerNameNew([i \in DOMAIN self |->
                       IF self[i] = "_" THEN "-" ELSE CharToLowercase(self[i])])

\* name.to_snake_case(), on a name TriggerName::new returned
DoToSnakeCase ==
    /\ subject.op = "new"
    /\ subject.value # None
    /\ subject' = [subject EXCEPT
                     !.op = "to_snake_case",
                     !.name = subject.value[1],
                     !.result = ToSnakeCase(subject.value[1]).result,
                     !.value = ToSnakeCase(subject.value[1]).value]
    /\ UNCHANGED <<evaluation, triggers, history>>
    /\ UNCHANGED vars

\* name.to_kebab_case(), on a name TriggerName::new returned
DoToKebabCase ==
    /\ subject.op = "new"
    /\ subject.value # None
    /\ subject' = [subject EXCEPT
                     !.op = "to_kebab_case",
                     !.name = subject.value[1],
                     !.result = ToKebabCase(subject.value[1]).result,
                     !.value = ToKebabCase(subject.value[1]).value]
    /\ UNCHANGED <<evaluation, triggers, history>>
    /\ UNCHANGED vars

NextName ==
    \/ DoTriggerNameNew
    \/ DoToSnakeCase
    \/ DoToKebabCase

SpecName == InitName /\ [][NextName]_<<vars, contract_vars>>

\* ==================================================================
\* Part 9: Phase, the 6F lifecycle phases (hexafn-core/src/phases/lifecycle.rs)
\* ==================================================================

\* bound on the number of calls of one walk through the phases
MaxWalk == 4

Phase == {"Feed", "Filter", "Format", "Function", "Forward", "Feedback"}

\* Phase::order
PhaseOrder(self) ==
    CASE self = "Feed" -> 1
      [] self = "Filter" -> 2
      [] self = "Format" -> 3
      [] self = "Function" -> 4
      [] self = "Forward" -> 5
      [] self = "Feedback" -> 6

\* Phase::next
PhaseNext(self) ==
    CASE self = "Feed" -> Some("Filter")
      [] self = "Filter" -> Some("Format")
      [] self = "Format" -> Some("Function")
      [] self = "Function" -> Some("Forward")
      [] self = "Forward" -> Some("Feedback")
      [] self = "Feedback" -> None

\* mutant: the phase before Format is Feed
PhasePrevious_SkipsFilter(self) ==
    CASE self = "Feed" -> None
      [] self = "Filter" -> Some("Feed")
      [] self = "Format" -> Some("Feed")
      [] self = "Function" -> Some("Format")
      [] self = "Forward" -> Some("Function")
      [] self = "Feedback" -> Some("Forward")

\* Phase::previous
PhasePrevious(self) ==
    CASE self = "Feed" -> None
      [] self = "Filter" -> Some("Feed")
      [] self = "Format" -> Some("Filter")
      [] self = "Function" -> Some("Format")
      [] self = "Forward" -> Some("Function")
      [] self = "Feedback" -> Some("Forward")

\* a walk starts at any phase; phase is the phase held, receiver the phase the
\* last call was made on, result what next or previous returned, order what
\* order returned, calls the number of calls made
InitPhase ==
    /\ OthersIdle
    /\ \E phase \in Phase :
          subject = [op |-> "none", phase |-> phase, receiver |-> phase,
                     result |-> None, order |-> 0, calls |-> 0, walk |-> <<phase>>]

\* the walk goes on with what the call returned, and stays where it is on None
Walked(op, result) ==
    /\ subject.calls < MaxWalk
    /\ subject' = [subject EXCEPT
                     !.op = op,
                     !.receiver = subject.phase,
                     !.result = result,
                     !.phase = IF result = None THEN subject.phase ELSE result[1],
                     !.calls = subject.calls + 1,
                     !.walk = IF result = None THEN subject.walk
                              ELSE Append(subject.walk, result[1])]
    /\ UNCHANGED <<evaluation, triggers, history>>
    /\ UNCHANGED vars

\* phase.next()
DoPhaseNext == Walked("next", PhaseNext(subject.phase))

\* phase.previous()
DoPhasePrevious == Walked("previous", PhasePrevious(subject.phase))

\* phase.order()
DoPhaseOrder ==
    /\ subject.calls < MaxWalk
    /\ subject' = [subject EXCEPT
                     !.op = "order",
                     !.receiver = subject.phase,
                     !.result = None,
                     !.order = PhaseOrder(subject.phase),
                     !.calls = subject.calls + 1]
    /\ UNCHANGED <<evaluation, triggers, history>>
    /\ UNCHANGED vars

NextPhase ==
    \/ DoPhaseNext
    \/ DoPhasePrevious
    \/ DoPhaseOrder

SpecPhase == InitPhase /\ [][NextPhase]_<<vars, contract_vars>>

\* ==================================================================
\* Part 10: the receivers of the TriggerEvaluator contract: calls in progress
\* on one registry (contracts/trigger_evaluator.rs)
\* ==================================================================

\* bound on the number of callers of one registry
MaxCallers == 2

\* bound on the number of triggers registered at a time
MaxRegistered == 3

Callers == 1..MaxCallers

\* the methods that take &mut self, and those that take &self
Mutators == {"register_trigger", "unregister_trigger"}

Readers == {"evaluate", "list_triggers", "get_active_triggers"}

\* the trigger of an identifier: TestTrigger is active, InactiveTrigger is not
TriggerOfId(id) ==
    IF id = "test" THEN TestTrigger(TRUE, <<TestCondition>>) ELSE InactiveTrigger

\* a caller that is in no call; otherwise op is the method called, step is
\* "borrowed" once the receiver is borrowed, "running" inside retain, and
\* "returned" once the body has run (a Vec<&dyn Trigger> returned keeps the
\* receiver borrowed until it is dropped); id is the identifier passed, cursor
\* the position of retain, observed the triggers returned, result the value
IdleCall ==
    [op |-> "none", step |-> "idle", id |-> "", cursor |-> 0,
     observed |-> << >>, result |-> ""]

\* mutant: &mut self is given while shared borrows of the receiver are held
CanBorrowMut_IgnoresReaders(calls, c) ==
    \A d \in Callers \ {c} : calls[d].op \notin Mutators

\* &mut self: no other borrow of the receiver is held
CanBorrowMut(calls, c) ==
    \A d \in Callers \ {c} : calls[d].op = "none"

\* &self: no exclusive borrow of the receiver is held
CanBorrowShared(calls, c) ==
    \A d \in Callers \ {c} : calls[d].op \notin Mutators

\* one registry, nobody calling; committed is the registry as the last call
\* that returned left it
InitBorrow ==
    /\ LifecycleIdle
    /\ evaluation = NoEvaluation
    /\ history = << >>
    /\ triggers = << >>
    /\ subject = [op |-> "calls", calls |-> [c \in Callers |-> IdleCall],
                  committed |-> << >>]

SetCall(c, call) ==
    /\ subject' = [subject EXCEPT !.calls[c] = call]
    /\ UNCHANGED <<evaluation, history>>
    /\ UNCHANGED vars

\* a caller enters register_trigger(&mut self, trigger)
BeginRegisterTrigger ==
    \E c \in Callers, id \in TriggerIds :
        /\ subject.calls[c].op = "none"
        /\ CanBorrowMut(subject.calls, c)
        /\ Len(triggers) < MaxRegistered
        /\ SetCall(c, [IdleCall EXCEPT !.op = "register_trigger",
                                       !.step = "borrowed", !.id = id])
        /\ UNCHANGED triggers

\* self.triggers.push(trigger); Ok(())
PushTrigger ==
    \E c \in Callers :
        /\ subject.calls[c].op = "register_trigger"
        /\ subject.calls[c].step = "borrowed"
        /\ triggers' = RegisterTrigger(triggers, TriggerOfId(subject.calls[c].id))
        /\ SetCall(c, [subject.calls[c] EXCEPT !.step = "returned", !.result = "Ok(())"])

\* a caller enters unregister_trigger(&mut self, id)
BeginUnregisterTrigger ==
    \E c \in Callers, id \in UnregisterIds :
        /\ subject.calls[c].op = "none"
        /\ CanBorrowMut(subject.calls, c)
        /\ SetCall(c, [IdleCall EXCEPT !.op = "unregister_trigger",
                                       !.step = "borrowed", !.id = id, !.cursor = 1])
        /\ UNCHANGED triggers

\* self.triggers.retain(|t| t.id() != id), one element at a time; Ok(()) after
\* the last one
RetainStep ==
    \E c \in Callers :
        LET call == subject.calls[c]
        IN  /\ call.op = "unregister_trigger"
            /\ call.step \in {"borrowed", "running"}
            /\ IF call.cursor > Len(triggers)
               THEN /\ SetCall(c, [call EXCEPT !.step = "returned", !.result = "Ok(())"])
                    /\ UNCHANGED triggers
               ELSE IF triggers[call.cursor].id # call.id
               THEN /\ SetCall(c, [call EXCEPT !.step = "running",
                                               !.cursor = call.cursor + 1])
                    /\ UNCHANGED triggers
               ELSE /\ SetCall(c, [call EXCEPT !.step = "running"])
                    /\ triggers' = SubSeq(triggers, 1, call.cursor - 1)
                                     \o SubSeq(triggers, call.cursor + 1, Len(triggers))

\* a caller enters evaluate, list_triggers or get_active_triggers (&self)
BeginRead ==
    \E c \in Callers, op \in Readers :
        /\ subject.calls[c].op = "none"
        /\ CanBorrowShared(subject.calls, c)
        /\ SetCall(c, [IdleCall EXCEPT !.op = op, !.step = "borrowed"])
        /\ UNCHANGED triggers

\* the body of a read: trigger.evaluate(context) for evaluate, which does not
\* look at the registry, and the collected references for the two others
ReadBody ==
    \E c \in Callers, context \in Contexts :
        LET call == subject.calls[c]
        IN  /\ call.op \in Readers
            /\ call.step = "borrowed"
            /\ SetCall(c, [call EXCEPT
                  !.step = "returned",
                  !.observed = CASE call.op = "list_triggers" -> ListTriggers(triggers)
                                 [] call.op = "get_active_triggers" -> GetActiveTriggers(triggers)
                                 [] OTHER -> << >>,
                  !.result = IF call.op = "evaluate"
                             THEN EvaluatorEvaluate(TriggerOfId("test"), context).result
                             ELSE "Vec"])
            /\ UNCHANGED triggers

\* the call returns, or the Vec it returned is dropped: the borrow ends
EndCall ==
    \E c \in Callers :
        /\ subject.calls[c].step = "returned"
        /\ subject' = [subject EXCEPT
                         !.calls[c] = IdleCall,
                         !.committed = IF subject.calls[c].op \in Mutators
                                       THEN triggers ELSE subject.committed]
        /\ UNCHANGED <<evaluation, triggers, history>>
        /\ UNCHANGED vars

NextBorrow ==
    \/ BeginRegisterTrigger
    \/ PushTrigger
    \/ BeginUnregisterTrigger
    \/ RetainStep
    \/ BeginRead
    \/ ReadBody
    \/ EndCall

SpecBorrow == InitBorrow /\ [][NextBorrow]_<<vars, contract_vars>>

\* ==================================================================
\* Part 11: a run of the lifecycle under one failure limit, with its counts
\* (value_objects/trigger_state.rs)
\* ==================================================================

\* bound on the number of Active -> Executing transitions of a run
MaxStarts == 3

\* a run, at one time of the clock, which no count depends on and which the
\* runs of Part 1 vary: subject holds the state it was created in, the max_failures every
\* record_execution_failure call of the run passes, the number of
\* record_execution_failure calls that returned Ok since the last
\* record_execution_success that returned Ok, and the number of transitions
\* from Active to Executing performed
InitRun ==
    /\ evaluation = NoEvaluation
    /\ triggers = << >>
    /\ history = << >>
    /\ now = 0
    /\ recorded = 0
    /\ \E s \in StateType, max_failures \in 0..MaxFailuresArg :
          /\ state = New(s, 0)
          /\ last = [op |-> "new", target |-> s, max_failures |-> 0,
                     pre |-> New(s, 0), result |-> [kind |-> "Ok"]]
          /\ script = IF s = "Active" THEN 0 ELSE -1
          /\ subject = [op |-> "run", initial |-> s, max_failures |-> max_failures,
                        consecutive |-> 0, starts |-> 0]

\* the counts of the run after the call `op`, made on `pre`, returned `result`
Counted(op, pre, result) ==
    [subject EXCEPT
       !.consecutive =
          IF result.kind # "Ok" THEN @
          ELSE IF op = "record_execution_failure" THEN @ + 1
          ELSE IF op = "record_execution_success" THEN 0
          ELSE @,
       !.starts =
          IF result.kind = "Ok" /\ pre.current_state = "Active"
             /\ result.value.current_state = "Executing"
          THEN @ + 1 ELSE @]

RunCall(op, target, max_failures, result) ==
    /\ Counted(op, state, result).starts <= MaxStarts
    /\ Called(op, target, max_failures, result)
    /\ subject' = Counted(op, state, result)
    /\ UNCHANGED <<evaluation, triggers, history>>

RunTransitionTo ==
    \E target \in StateType :
        RunCall("transition_to", target, 0, TransitionTo(state, target, now))

RunTransitionToWithReason ==
    \E target \in StateType, reason \in Reasons :
        RunCall("transition_to_with_reason", target, 0,
                TransitionToWithReason(state, target, Some(reason), now))

RunRecordExecutionSuccess ==
    /\ state.execution_count < MaxExecutions
    /\ RunCall("record_execution_success", "Success", 0,
               RecordExecutionSuccess(state, now))

\* every record_execution_failure of the run passes the same max_failures
RunRecordExecutionFailure ==
    /\ state.execution_count < MaxExecutions
    /\ \E msg \in ErrorMessages :
          RunCall("record_execution_failure", "Failed", subject.max_failures,
                  RecordExecutionFailure(state, msg, subject.max_failures, now))

RunStartExecution ==
    RunCall("start_execution", "Executing", 0, StartExecution(state, now))

RunSuspend ==
    \E reason \in Reasons :
        RunCall("suspend", "Suspended", 0, Suspend(state, reason, now))

RunArchive ==
    \E reason \in Reasons :
        RunCall("archive", "Archived", 0, Archive(state, reason, now))

RunResume ==
    RunCall("resume", "Active", 0, Resume(state, now))

NextRun ==
    \/ RunTransitionTo
    \/ RunTransitionToWithReason
    \/ RunRecordExecutionSuccess
    \/ RunRecordExecutionFailure
    \/ RunStartExecution
    \/ RunSuspend
    \/ RunArchive
    \/ RunResume

SpecRun == InitRun /\ [][NextRun]_<<vars, contract_vars>>

\* ==================================================================
\* Part 12: PhaseContext (hexafn-core/src/phases/context.rs) over the phase
\* names of hexafn-core/src/phases/lifecycle.rs
\* ==================================================================

PHASE_ORDER ==
    << <<1, "feed">>, <<2, "filter">>, <<3, "format">>,
       <<4, "function">>, <<5, "forward">>, <<6, "feedback">> >>

MAX_PHASE_COUNT == 6

\* get_phase_order: the order of the first entry of PHASE_ORDER with that name
get_phase_order(phase) ==
    LET found == {i \in DOMAIN PHASE_ORDER : PHASE_ORDER[i][2] = phase}
    IN  IF found = {} THEN None
        ELSE Some(PHASE_ORDER[CHOOSE i \in found : \A j \in found : i <= j][1])

\* next_phase: the name of the entry whose order is one more
next_phase(current) ==
    IF get_phase_order(current) = None THEN None
    ELSE LET current_order == get_phase_order(current)[1]
         IN  IF current_order >= MAX_PHASE_COUNT THEN None
             ELSE LET found == {i \in DOMAIN PHASE_ORDER :
                                   PHASE_ORDER[i][1] = current_order + 1}
                  IN  IF found = {} THEN None
                      ELSE Some(PHASE_ORDER[CHOOSE i \in found :
                                               \A j \in found : i <= j][2])

\* PhaseContext::new; started_at, the time of construction, is left out
PhaseContextNew(phase) ==
    [phase |-> phase,
     order |-> IF get_phase_order(phase) = None THEN 0 ELSE get_phase_order(phase)[1],
     correlation_id |-> None,
     metadata |-> << >>]

\* PhaseContext::with_correlation_id
ContextWithCorrelationId(self, correlation_id) ==
    [self EXCEPT !.correlation_id = Some(correlation_id)]

\* PhaseContext::with_metadata
ContextWithMetadata(self, key, value) ==
    [self EXCEPT !.metadata = Insert(self.metadata, key, value)]

\* PhaseContext::with_metadata_map: self.metadata.extend(metadata)
ContextWithMetadataMap(self, metadata) ==
    [self EXCEPT !.metadata =
        [k \in DOMAIN self.metadata \cup DOMAIN metadata |->
            IF k \in DOMAIN metadata THEN metadata[k] ELSE self.metadata[k]]]

\* PhaseContext::create_next_context: each ? returns None from the method
CreateNextContext(self) ==
    IF next_phase(self.phase) = None THEN None
    ELSE IF self.correlation_id = None THEN None
    ELSE Some(ContextWithMetadataMap(
                  ContextWithCorrelationId(PhaseContextNew(next_phase(self.phase)[1]),
                                           self.correlation_id[1]),
                  self.metadata))

\* the phase names contexts are made with: the six phases, and two that are none
ContextPhases ==
    {PHASE_ORDER[i][2] : i \in DOMAIN PHASE_ORDER} \cup {"invalid", "Feed"}

CorrelationIds == {"trace-123", "trace-456"}

ContextKeys == {"source", "type"}

ContextValues == {"webhook", "json"}

\* PhaseContext::new(phase)
InitContext ==
    /\ OthersIdle
    /\ \E phase \in ContextPhases :
          subject = [op |-> "new", context |-> PhaseContextNew(phase), result |-> None]

Chained(context) ==
    /\ subject.op # "create_next_context"
    /\ subject' = [subject EXCEPT !.op = "with", !.context = context]
    /\ UNCHANGED <<evaluation, triggers, history>>
    /\ UNCHANGED vars

\* context.with_correlation_id(id)
DoContextWithCorrelationId ==
    \E id \in CorrelationIds :
        Chained(ContextWithCorrelationId(subject.context, id))

\* context.with_metadata(key, value)
DoContextWithMetadata ==
    \E key \in ContextKeys, value \in ContextValues :
        Chained(ContextWithMetadata(subject.context, key, value))

\* context.create_next_context()
DoCreateNextContext ==
    /\ subject.op # "create_next_context"
    /\ subject' = [subject EXCEPT !.op = "create_next_context",
                                  !.result = CreateNextContext(subject.context)]
    /\ UNCHANGED <<evaluation, triggers, history>>
    /\ UNCHANGED vars

NextContext ==
    \/ DoContextWithCorrelationId
    \/ DoContextWithMetadata
    \/ DoCreateNextContext

SpecContext == InitContext /\ [][NextContext]_<<vars, contract_vars>>

\* ------------------------------------------------------------------ claims

\* the table of allowed transitions between distinct states, as the
\* specification's section 4.2 lists it
C1_Table ==
    { <<"Inactive", "Active">>, <<"Inactive", "Archived">> }
    \cup { <<"Active", t>> : t \in {"Executing", "Suspended", "Inactive", "Archived"} }
    \cup { <<"Executing", t>> : t \in {"Success", "Failed", "Suspended"} }
    \cup { <<"Success", t>> : t \in {"Active", "Suspended", "Archived"} }
    \cup { <<"Failed", t>> : t \in {"Active", "Suspended", "Archived"} }
    \cup { <<"Suspended", t>> : t \in {"Active", "Inactive", "Archived"} }

\* C1: for every ordered pair of distinct states (from, to), can_transition_to
\* is true exactly when the edge is in the table, and a transition_to call
\* between distinct states returns Ok exactly for the edges of the table.
C1_TransitionTableClosure ==
    /\ \A from \in StateType, to \in StateType :
          (from # to)
             => (CanTransitionTo(from, to) <=> (<<from, to>> \in C1_Table))
    /\ (last.op = "transition_to" /\ last.pre.current_state # last.target)
          => /\ ( (last.result.kind = "Ok")
                     <=> (<<last.pre.current_state, last.target>> \in C1_Table) )
             /\ ( (last.result.kind = "Ok") => (state.current_state = last.target) )
             /\ ( (last.result.kind # "Ok") => (state = last.pre) )

\* C1 witness: transition_to(Inactive) on a Suspended trigger has returned Ok
C1_Witness ==
    /\ last.op = "transition_to"
    /\ last.pre.current_state = "Suspended"
    /\ last.target = "Inactive"
    /\ last.result.kind = "Ok"
    /\ state.current_state = "Inactive"

\* C2: every state obtained from TriggerState::new(s) by the lifecycle
\* operations has failure_count <= execution_count.
C2_FailuresWithinExecutions ==
    state.failure_count <= state.execution_count

\* C2 witness: three failures in a row have been recorded, nothing else
C2_Witness ==
    /\ last.op = "record_execution_failure"
    /\ last.result.kind = "Ok"
    /\ state.failure_count = 3
    /\ state.execution_count = 3

\* C3: Archived is terminal: from a state with current_state = Archived every
\* lifecycle operation that targets another state returns an error, and
\* current_state stays Archived.
C3_ArchivedIsTerminal ==
    [][ (state.current_state = "Archived")
          => /\ state'.current_state = "Archived"
             /\ ( (last'.op \in LifecycleOps /\ last'.target # "Archived")
                     => (last'.result.kind = "InvalidTransition") ) ]_vars

\* C3 witness: resume was called on an archived trigger and returned an error
C3_Witness ==
    /\ last.op = "resume"
    /\ last.pre.current_state = "Archived"
    /\ last.result.kind = "InvalidTransition"
    /\ state.current_state = "Archived"

\* C4: record_execution_failure called in Executing with prior failure count f
\* returns MaxFailuresExceeded{f+1, max_failures} exactly when f+1 > max_failures,
\* and otherwise a state in Failed, entered from Executing, with failure_count f+1.
C4_FailureLimit ==
    (last.op = "record_execution_failure" /\ last.pre.current_state = "Executing")
       => LET f == last.pre.failure_count
              m == last.max_failures
          IN  IF f + 1 > m
              THEN last.result = MaxFailuresExceeded(f + 1, m)
              ELSE /\ last.result.kind = "Ok"
                   /\ state.current_state = "Failed"
                   /\ state.previous_state = Some("Executing")
                   /\ state.failure_count = f + 1

\* C4 witness: the failure that reaches the limit exactly (f+1 = max_failures = 2)
\* has been recorded as a normal Failed state
C4_Witness ==
    /\ last.op = "record_execution_failure"
    /\ last.pre.current_state = "Executing"
    /\ last.pre.failure_count = 1
    /\ last.max_failures = 2
    /\ last.result.kind = "Ok"
    /\ state.current_state = "Failed"

\* C5: from TriggerState::new(Active) with max_failures = 3, repeating
\* start_execution then record_execution_failure, the first three rounds
\* succeed and leave failure_count = 1, 2, 3, and in the fourth round
\* start_execution succeeds and record_execution_failure returns
\* MaxFailuresExceeded{4, 3}.
C5_MaxFailureBreach ==
    /\ ( (script \in {1, 3, 5, 7})
            => (last.result.kind = "Ok" /\ state.current_state = "Executing") )
    /\ ( (script \in {2, 4, 6})
            => (last.result.kind = "Ok" /\ state.failure_count = script \div 2) )
    /\ ( (script = 8)
            => (last.result = MaxFailuresExceeded(4, TestMaxFailures)) )

\* C6: when record_execution_failure returns MaxFailuresExceeded the trigger's
\* state is still Executing and already counts the breaching attempt:
\* execution_count and failure_count are one higher than before the call and
\* last_executed_at is set.
C6_BreachIsCounted ==
    (last.op = "record_execution_failure"
        /\ last.result.kind = "MaxFailuresExceeded")
       => /\ state.current_state = "Executing"
          /\ state.execution_count = last.pre.execution_count + 1
          /\ state.failure_count = last.pre.failure_count + 1
          /\ state.last_executed_at # None

\* C7: record_execution_success called in Executing returns a state in Success
\* with failure_count = 0, whatever the failure count was before.
C7_SuccessResetsFailures ==
    (last.op = "record_execution_success" /\ last.pre.current_state = "Executing")
       => /\ last.result.kind = "Ok"
          /\ state.current_state = "Success"
          /\ state.failure_count = 0

\* C7 witness: a success has been recorded after two accumulated failures
C7_Witness ==
    /\ last.op = "record_execution_success"
    /\ last.pre.current_state = "Executing"
    /\ last.pre.failure_count = 2
    /\ state.current_state = "Success"
    /\ state.failure_count = 0

C9_RecordRequiresExecuting ==
    (last.op \in RecordOps /\ last.pre.current_state # "Executing")
       => /\ last.result.kind = "InvalidTransition"
          /\ last.result.from = last.pre.current_state
          /\ last.result.to = (IF last.op = "record_execution_success"
                               THEN "Success" ELSE "Failed")
          /\ state = last.pre

\* C9 witness: record_execution_success was called on a trigger already in
\* Success (a self-transition the table would allow) and was refused
C9_Witness ==
    /\ last.op = "record_execution_success"
    /\ last.pre.current_state = "Success"
    /\ last.pre.execution_count = 1
    /\ last.result.kind = "InvalidTransition"
    /\ state = last.pre

\* C10: start_execution returns Ok, with current_state = Executing, only when
\* called in state Active, and returns an error from every other state.
C10_StartOnlyFromActive ==
    (last.op = "start_execution")
       => /\ ( (last.result.kind = "Ok") <=> (last.pre.current_state = "Active") )
          /\ ( (last.result.kind = "Ok") => (state.current_state = "Executing") )

C12_ResumeOnlyFromSuspended ==
    (last.op = "resume")
       => /\ ( (last.result.kind = "Ok") <=> (last.pre.current_state = "Suspended") )
          /\ ( (last.result.kind = "Ok") => (state.current_state = "Active") )
          /\ ( (last.pre.current_state # "Suspended")
                 => /\ last.result.kind = "InvalidTransition"
                    /\ last.result.from = last.pre.current_state
                    /\ last.result.to = "Active"
                    /\ state = last.pre )

\* C12 witness: resume was refused on a trigger in Failed, from which the
\* table allows a transition to Active
C12_Witness ==
    /\ last.op = "resume"
    /\ last.pre.current_state = "Failed"
    /\ last.result.kind = "InvalidTransition"
    /\ last.result.to = "Active"
    /\ state.current_state = "Failed"

\* C13: self-transitions are always permitted: for each of the seven states X,
\* Archived included, can_transition_to(X, X) is true and transition_to(X) on
\* a state in X returns Ok.
C13_SelfTransitionsPermitted ==
    (last.op = "transition_to" /\ last.target = last.pre.current_state)
       => /\ CanTransitionTo(last.pre.current_state, last.target)
          /\ last.result.kind = "Ok"

\* C14 (as stated): transition_to(X) on a state in X returns a state with the
\* same current_state, previous_state, reason, counters and last_executed_at
\* as its input.
C14_SelfTransitionIsNoOp ==
    (last.op = "transition_to" /\ last.target = last.pre.current_state)
       => /\ last.result.kind = "Ok"
          /\ state.current_state = last.pre.current_state
          /\ state.previous_state = last.pre.previous_state
          /\ state.reason = last.pre.reason
          /\ state.execution_count = last.pre.execution_count
          /\ state.failure_count = last.pre.failure_count
          /\ state.last_executed_at = last.pre.last_executed_at

\* C14 (amended): when transition_to(X) on a state in X returns Ok, the state
\* returned has the same current_state, counters, last_executed_at and metadata
\* as the input, previous_state = Some(X) and no reason (the input's
\* previous_state and reason are overwritten); applying it a second time
\* returns Ok and changes none of these fields again.
C14_SelfTransitionIdempotent ==
    /\ ( (last.op = "transition_to" /\ last.target = last.pre.current_state
            /\ last.result.kind = "Ok")
           => /\ state.current_state = last.pre.current_state
              /\ state.execution_count = last.pre.execution_count
              /\ state.failure_count = last.pre.failure_count
              /\ state.last_executed_at = last.pre.last_executed_at
              /\ state.metadata = last.pre.metadata
              /\ state.previous_state = Some(last.pre.current_state)
              /\ state.reason = None )
    /\ LET once == TransitionTo(state, state.current_state, now)
       IN  (once.kind = "Ok")
             => LET twice == TransitionTo(once.value, state.current_state, now)
                IN  /\ twice.kind = "Ok"
                    /\ twice.value = once.value

\* C14 witness: a self-transition on a suspended trigger that had a recorded
\* previous state and reason has overwritten both
C14_Witness ==
    /\ last.op = "transition_to"
    /\ last.target = "Suspended"
    /\ last.pre.current_state = "Suspended"
    /\ last.pre.previous_state = Some("Active")
    /\ last.pre.reason # None
    /\ last.result.kind = "Ok"
    /\ state.previous_state = Some("Suspended")
    /\ state.reason = None

\* C15: a successful transition_to(target), start_execution, suspend, resume or
\* archive returns a state with previous_state = the old current_state and
\* current_state = target, and leaves execution_count, failure_count,
\* last_executed_at and metadata as they were.
C15_TransitionFrame ==
    (last.op \in {"transition_to", "start_execution", "suspend", "resume", "archive"}
        /\ last.result.kind = "Ok")
       => /\ state.previous_state = Some(last.pre.current_state)
          /\ state.current_state = last.target
          /\ state.execution_count = last.pre.execution_count
          /\ state.failure_count = last.pre.failure_count
          /\ state.last_executed_at = last.pre.last_executed_at
          /\ state.metadata = last.pre.metadata

\* C15 witness: a trigger with two executions, one failure and metadata has
\* been suspended from Failed
C15_Witness ==
    /\ last.op = "suspend"
    /\ last.result.kind = "Ok"
    /\ last.pre.current_state = "Failed"
    /\ state.current_state = "Suspended"
    /\ state.execution_count = 2
    /\ state.failure_count = 1
    /\ state.last_executed_at # None
    /\ DOMAIN state.metadata # {}

\* C16: every TriggerState reachable from TriggerState::new(s) through the
\* lifecycle operations passes validate(): last_executed_at is set only if
\* execution_count > 0, and a recorded previous_state can transition to
\* current_state.
C16_ReachableStatesValidate ==
    /\ Validate(state) = "Ok"
    /\ (state.last_executed_at # None) => (state.execution_count > 0)
    /\ (state.previous_state # None)
          => CanTransitionTo(state.previous_state[1], state.current_state)

\* C16 witness: a state with a recorded execution and a recorded transition
C16_Witness ==
    /\ state.current_state = "Success"
    /\ state.previous_state = Some("Executing")
    /\ state.execution_count = 1
    /\ state.last_executed_at # None
    /\ Validate(state) = "Ok"

\* the conditions of the trigger evaluated and what matches() of each returns
\* on the context of the call
EvaluatedConditions == evaluation.trigger[1].get_conditions

Outcomes == [i \in DOMAIN EvaluatedConditions |->
                Matches(EvaluatedConditions[i], evaluation.context)]

NonPassing == {i \in DOMAIN Outcomes : Outcomes[i] # "Ok(true)"}

\* C17: Trigger::evaluate of an active trigger returns Ok(true) iff every
\* condition returns Ok(true); at the first condition (in the order of
\* get_conditions) that returns Ok(false) it returns Ok(false), at the first
\* that returns Err it returns that condition's error, and matches() has been
\* invoked on the conditions up to that one, once each, and on no later one.
C17_ConjunctiveShortCircuit ==
    (evaluation.op = "Trigger::evaluate" /\ evaluation.trigger[1].is_active)
       => /\ ( (evaluation.result = "Ok(true)") <=> (NonPassing = {}) )
          /\ ( (NonPassing = {})
                 => (evaluation.invoked = [i \in DOMAIN Outcomes |-> i]) )
          /\ ( (NonPassing # {})
                 => LET first == CHOOSE i \in NonPassing :
                                    \A j \in NonPassing : i <= j
                    IN  /\ evaluation.result = Outcomes[first]
                        /\ evaluation.error_of
                              = (IF Outcomes[first] = "Err" THEN first ELSE 0)
                        /\ evaluation.invoked = [i \in 1..first |-> i] )

\* C17 witness: the first condition did not match and the second, which would
\* have returned an error, was not invoked
C17_Witness ==
    /\ evaluation.op = "Trigger::evaluate"
    /\ evaluation.trigger[1].is_active
    /\ Len(EvaluatedConditions) = 2
    /\ Outcomes[1] = "Ok(false)"
    /\ Outcomes[2] = "Err"
    /\ evaluation.result = "Ok(false)"
    /\ evaluation.invoked = <<1>>

\* C18: the conditions of a trigger are evaluated in ascending get_priority()
\* order whatever the order of get_conditions(), so the condition that
\* short-circuits the evaluation is the non-passing one of lowest priority value.
C18_PriorityOrder ==
    (evaluation.op = "Trigger::evaluate" /\ evaluation.trigger[1].is_active)
       => /\ \A a, b \in DOMAIN evaluation.invoked :
                (a < b) =>
                   (EvaluatedConditions[evaluation.invoked[a]].get_priority
                      <= EvaluatedConditions[evaluation.invoked[b]].get_priority)
          /\ ( (NonPassing # {})
                 => LET stop == evaluation.invoked[Len(evaluation.invoked)]
                    IN  /\ stop \in NonPassing
                        /\ \A j \in NonPassing :
                              EvaluatedConditions[stop].get_priority
                                 <= EvaluatedConditions[j].get_priority )

\* C19: TriggerEvaluator::evaluate on a trigger whose is_active() is false
\* returns Ok(false) and invokes matches() on none of its conditions.
C19_InactiveNotEvaluated ==
    (evaluation.op = "TriggerEvaluator::evaluate" /\ ~evaluation.trigger[1].is_active)
       => /\ evaluation.result = "Ok(false)"
          /\ evaluation.invoked = << >>

\* the i-th call registered a trigger and no later call unregistered its id
StillRegistered(i) ==
    /\ history[i].op = "register_trigger"
    /\ \A j \in (i + 1)..Len(history) :
          ~(history[j].op = "unregister_trigger" /\ history[j].id = history[i].id)

\* the triggers still registered after the first n calls of history, in the
\* order of their registration
RECURSIVE RegisteredUpTo(_)
RegisteredUpTo(n) ==
    IF n = 0 THEN << >>
    ELSE IF StillRegistered(n)
    THEN Append(RegisteredUpTo(n - 1), history[n].trigger[1])
    ELSE RegisteredUpTo(n - 1)

\* C20: after any sequence of register_trigger and unregister_trigger calls,
\* list_triggers returns exactly the triggers registered and not since
\* unregistered, in the order in which they were registered.
C20_ListIsRegistrationOrder ==
    ListTriggers(triggers) = RegisteredUpTo(Len(history))

\* C20 witness: two triggers were registered, the first was unregistered and
\* registered again, and is now listed after the second
C20_Witness ==
    /\ Len(history) = 4
    /\ history[1].op = "register_trigger" /\ history[1].id = "test"
    /\ history[2].op = "register_trigger" /\ history[2].id = "inactive"
    /\ history[3].op = "unregister_trigger" /\ history[3].id = "test"
    /\ history[4] = history[1]
    /\ ListTriggers(triggers) = <<history[2].trigger[1], history[1].trigger[1]>>

ActivePositions ==
    {i \in DOMAIN ListTriggers(triggers) : ListTriggers(triggers)[i].is_active}

\* C22: get_active_triggers returns exactly the triggers of list_triggers whose
\* is_active() is true, in the same relative order: the k-th trigger it returns
\* is the k-th active trigger of list_triggers, and it returns nothing else.
C22_ActiveTriggersFilter ==
    /\ Len(GetActiveTriggers(triggers)) = Cardinality(ActivePositions)
    /\ \A i \in ActivePositions :
          GetActiveTriggers(triggers)[Cardinality({j \in ActivePositions : j <= i})]
             = ListTriggers(triggers)[i]

\* C22 witness: an inactive trigger is registered between two active ones of
\* different identifiers, and the two active ones are returned in that order
C22_Witness ==
    /\ Len(triggers) = 3
    /\ triggers[1].is_active /\ triggers[1].id = "inactive"
    /\ ~triggers[2].is_active
    /\ triggers[3].is_active /\ triggers[3].id = "test"
    /\ GetActiveTriggers(triggers) = <<triggers[1], triggers[3]>>

\* the input of TimerExpression::new is a number in ASCII digits and a unit
WellFormedTimerInput ==
    /\ Len(subject.input) >= 2
    /\ subject.input[Len(subject.input)] \in TimeUnits
    /\ \A i \in 1..(Len(subject.input) - 1) : subject.input[i] \in AsciiDigits

\* the decimal value of the first n characters of the input, computed exactly
RECURSIVE DecimalValue(_)
DecimalValue(n) ==
    IF n = 0 THEN ZeroLimbs
    ELSE MulAdd(DecimalValue(n - 1), 10, DigitValue(subject.input[n]))

\* the exact product n x seconds-per-unit of a well-formed input
ExactSeconds ==
    MulAdd(DecimalValue(Len(subject.input) - 1),
           SecondsPerUnit(subject.input[Len(subject.input)]), 0)

\* C24: TimerExpression::new on "<n><unit>" is accepted iff the exact product
\* n x seconds-per-unit lies in (0, 2592000]; every other input, a number so
\* large that the multiplication exceeds 64 bits included, returns a
\* ValidationError and never panics or wraps into an accepted duration.
C24_TimerAcceptedIffInRange ==
    (subject.op = "TimerExpression::new")
       => IF WellFormedTimerInput
             /\ ~IsZero(ExactSeconds)
             /\ ~GreaterThan(ExactSeconds, 2592000)
          THEN /\ subject.result.kind = "Ok"
               /\ subject.result.secs = ExactSeconds
          ELSE subject.result.kind = "ValidationError"

\* C24 divergence, release build: a product that exceeds 64 bits has been
\* wrapped into an accepted duration
C24_WrappedAccepted ==
    ~(/\ subject.op = "TimerExpression::new"
      /\ subject.build = "release"
      /\ WellFormedTimerInput
      /\ ~Fits64(ExactSeconds)
      /\ subject.result.kind = "Ok")

\* the positions of `*` in the pattern matched
StarPositions == {i \in DOMAIN subject.self.pattern : subject.self.pattern[i] = "*"}

\* C25: a non-regex pattern with exactly one `*`, prefix*suffix, matches an
\* event type iff the event type is prefix, then some (possibly empty) string,
\* then suffix; a pattern without `*` matches iff it equals the event type.
C25_WildcardMatch ==
    (subject.op = "EventPattern::matches")
       => /\ ( (StarPositions = {})
                 => (subject.result <=> (subject.self.pattern = subject.event_type)) )
          /\ ( (Cardinality(StarPositions) = 1)
                 => LET star   == CHOOSE i \in StarPositions : TRUE
                        prefix == SubSeq(subject.self.pattern, 1, star - 1)
                        suffix == SubSeq(subject.self.pattern, star + 1,
                                         Len(subject.self.pattern))
                    IN  subject.result
                          <=> (\E middle \in Strings(MaxEventLen) :
                                  subject.event_type = prefix \o middle \o suffix) )

\* C26: TriggerConfig::validate returns an error whenever timeout_seconds is 0
\* or greater than 3600, max_executions is 0, a metadata key is empty or longer
\* than 100 characters, a metadata value is longer than 1000 characters, or the
\* metadata map holds more than 50 entries, and returns Ok otherwise.
C26_ValidateRechecksAll ==
    (subject.op = "validate")
       => ( (subject.result # "Ok")
              <=> \/ subject.config.timeout_seconds = Some(0)
                  \/ /\ subject.config.timeout_seconds # None
                     /\ subject.config.timeout_seconds[1] > 3600
                  \/ subject.config.max_executions = Some(0)
                  \/ \E k \in DOMAIN subject.config.metadata :
                        \/ k.len = 0
                        \/ k.len > 100
                        \/ subject.config.metadata[k] > 1000
                  \/ Cardinality(DOMAIN subject.config.metadata) > 50 )

\* the callers inside a method that takes &mut self, and inside one that takes &self
Mutating == {c \in Callers : subject.calls[c].op \in Mutators}

Reading == {c \in Callers : subject.calls[c].op \in Readers}

RECURSIVE LeavesInOrder(_)
LeavesInOrder(tree) ==
    IF tree.kind = "Composite"
    THEN LeavesInOrder(tree.left[1]) \o LeavesInOrder(tree.right[1])
    ELSE <<tree>>

\* the error of a leaf on its own, <<"Ok">> for a valid leaf: the only leaves
\* that are not valid are a timer whose duration is 0 and an empty event pattern
LeafError(leaf) ==
    IF leaf.kind = "Timer" /\ ~leaf.parsed /\ leaf.text = <<"0", "s">>
    THEN <<"timer_duration", "0", "s">>
    ELSE IF leaf.kind = "Event" /\ leaf.text = << >>
    THEN <<"event_pattern", "EmptyValue">>
    ELSE <<"Ok">>

C28_NotIgnoresRight ==
    (subject.op \in {"validate", "display"}
        /\ subject.condition.kind = "Composite"
        /\ subject.condition.operator = "Not")
       => /\ ( (subject.op = "validate")
                 => (subject.result = ConditionValidate(subject.condition.left[1]).result) )
          /\ ( (subject.op = "display")
                 => (subject.display
                       = <<"NOT ">> \o ConditionDisplay(subject.condition.left[1])) )

\* the strings the specification gives as rejected
RejectedExamples ==
    {<< >>, <<"1", "2", "3", "x">>, <<"b", "a", "d", " ", "n", "a", "m", "e">>,
     <<"s", "y", "s", "t", "e", "m">>, <<"S", "Y", "S", "T", "E", "M">>}

\* C29: TriggerName::new accepts a string iff it is 1 to 64 characters long,
\* consists only of ASCII letters, digits, '-' and '_', starts with a letter or
\* '_', and is not equal, ignoring case, to a reserved word; every other string
\* is rejected with a ValidationError, among them "", "123x", "bad name",
\* "system" and "SYSTEM".
C29_NameAcceptedIffWellFormed ==
    (subject.op = "new")
       => LET name == subject.name
              well_formed ==
                 /\ Len(name) \in 1..64
                 /\ \A i \in DOMAIN name :
                       name[i] \in AsciiLetters \cup AsciiDigits \cup {"-", "_"}
                 /\ name[1] \in AsciiLetters \cup {"_"}
                 /\ \A reserved \in ReservedNames :
                       \/ Len(reserved) # Len(name)
                       \/ \E i \in DOMAIN name :
                             CharToLowercase(name[i]) # CharToLowercase(reserved[i])
          IN  /\ (subject.result = <<"Ok">>) <=> well_formed
              /\ (subject.result = <<"Ok">>) <=> (subject.value = Some(name))
              /\ (subject.result # <<"Ok">>) <=> (subject.value = None)
              /\ (name \in RejectedExamples) => (subject.result # <<"Ok">>)

\* C29 witness: "SYSTEM" has been refused as a reserved name
C29_Witness ==
    /\ subject.op = "new"
    /\ subject.name = <<"S", "Y", "S", "T", "E", "M">>
    /\ subject.result = <<"InvalidValue: reserved">>

\* C30: phase navigation is consistent: if p.next() = q then q.previous() = p
\* and q.order() = p.order() + 1; if p.previous() = r then r.next() = p; Feed
\* alone has no previous phase and Feedback alone has no next phase.
C30_NavigationConsistent ==
    LET p == subject.receiver
    IN  /\ (subject.op = "next" /\ subject.result # None)
             => /\ PhasePrevious(subject.result[1]) = Some(p)
                /\ PhaseOrder(subject.result[1]) = PhaseOrder(p) + 1
        /\ (subject.op = "previous" /\ subject.result # None)
             => PhaseNext(subject.result[1]) = Some(p)
        /\ (subject.op = "next") => ((subject.result = None) <=> (p = "Feedback"))
        /\ (subject.op = "previous") => ((subject.result = None) <=> (p = "Feed"))
        /\ (subject.op = "order" /\ PhaseNext(p) # None)
             => PhaseOrder(PhaseNext(p)[1]) = subject.order + 1

\* C30 witness: a walk has gone from Filter to Format and Function by next()
\* and back to Format by previous()
C30_Witness ==
    /\ subject.op = "previous"
    /\ subject.receiver = "Function"
    /\ subject.result = Some("Format")
    /\ subject.walk = <<"Filter", "Format", "Function", "Format">>

\* C31: if every record_execution_failure call of a run uses the same
\* max_failures = m, failure_count <= m holds in every state the run produces;
\* in particular no state in Failed has failure_count > m.
C31_FailureCountWithinLimit ==
    /\ state.failure_count <= subject.max_failures
    /\ (state.current_state = "Failed") => ~(state.failure_count > subject.max_failures)

\* C31 witness: with the limit 2, the third failure has been refused with
\* MaxFailuresExceeded and the state held has failure_count 2
C31_Witness ==
    /\ subject.max_failures = 2
    /\ last.op = "record_execution_failure"
    /\ last.result.kind = "MaxFailuresExceeded"
    /\ state.failure_count = 2

\* C32: failure_count counts consecutive failures: in every reachable state it
\* is the number of record_execution_failure calls that returned Ok since the
\* most recent record_execution_success that returned Ok, or since creation;
\* suspend, resume, deactivation and re-activation in between do not change it.
C32_FailureCountIsConsecutive ==
    /\ state.failure_count = subject.consecutive
    /\ (last.op \in {"suspend", "resume", "transition_to", "transition_to_with_reason",
                     "start_execution", "archive"})
          => (state.failure_count = last.pre.failure_count)

\* C32 witness: two failures in a row, then a suspension, and the trigger has
\* been resumed with failure_count 2
C32_Witness ==
    /\ last.op = "resume"
    /\ last.result.kind = "Ok"
    /\ state.failure_count = 2
    /\ subject.consecutive = 2
    /\ state.execution_count > 2

\* C33: in a run from TriggerState::new(Inactive) or TriggerState::new(Active),
\* execution_count never exceeds the number of Active -> Executing transitions
\* performed so far: an outcome is recorded after its own start from Active,
\* and not twice for one start.
C33_ExecutionsWithinStarts ==
    (subject.initial \in {"Inactive", "Active"})
       => state.execution_count <= subject.starts

\* C33 witness: a run from Inactive has started twice and recorded two
\* outcomes, and a third start has been suspended without an outcome
C33_Witness ==
    /\ subject.initial = "Inactive"
    /\ state.execution_count = 2
    /\ subject.starts = 3
    /\ state.current_state = "Suspended"

\* what each lifecycle operation returns when called on self at time t
LifecycleResults(self, t) ==
    {TransitionTo(self, target, t) : target \in StateType}
      \cup {TransitionToWithReason(self, target, Some(reason), t) :
               target \in StateType, reason \in Reasons}
      \cup {RecordExecutionFailure(self, msg, max_failures, t) :
               msg \in ErrorMessages, max_failures \in 0..MaxFailuresArg}
      \cup {Suspend(self, reason, t) : reason \in Reasons}
      \cup {Archive(self, reason, t) : reason \in Reasons}
      \cup {RecordExecutionSuccess(self, t), StartExecution(self, t), Resume(self, t)}

\* archive succeeds on self, or suspend succeeds and archive succeeds after it
ArchivedWithinTwo(self, t) ==
    \E reason \in Reasons :
        \/ Archive(self, reason, t).kind = "Ok"
        \/ /\ Suspend(self, reason, t).kind = "Ok"
           /\ Archive(Suspend(self, reason, t).value, reason, t).kind = "Ok"

C35_UnregisterRemovesEveryMatch ==
    [][ (Len(history') = Len(history) + 1
           /\ history'[Len(history')].op = "unregister_trigger")
          => LET id   == history'[Len(history')].id
                 kept == {i \in DOMAIN ListTriggers(triggers) :
                             ListTriggers(triggers)[i].id # id}
                 nth(k) == CHOOSE i \in kept :
                              Cardinality({j \in kept : j <= i}) = k
             IN  /\ \A k \in DOMAIN ListTriggers(triggers') :
                       ListTriggers(triggers')[k].id # id
                 /\ Len(ListTriggers(triggers')) = Cardinality(kept)
                 /\ \A k \in 1..Cardinality(kept) :
                       ListTriggers(triggers')[k] = ListTriggers(triggers)[nth(k)]
      ]_<<vars, contract_vars>>

\* C35 witness: "test" has been registered twice, with a trigger of another id
\* in between, and unregistered: the one trigger left is the other one
C35_Witness ==
    /\ Len(history) = 4
    /\ \A i \in 1..3 : history[i].op = "register_trigger"
    /\ history[1].id = "test" /\ history[2].id = "inactive" /\ history[3].id = "test"
    /\ history[1].trigger # history[3].trigger
    /\ history[4].op = "unregister_trigger" /\ history[4].id = "test"
    /\ ListTriggers(triggers) = <<history[2].trigger[1]>>

\* the six phases in their order, and the phase that follows each but the last
FollowingPhase ==
    [p \in {"feed", "filter", "format", "function", "forward"} |->
        CASE p = "feed" -> "filter"
          [] p = "filter" -> "format"
          [] p = "format" -> "function"
          [] p = "function" -> "forward"
          [] p = "forward" -> "feedback"]

\* C36: create_next_context returns a context for the following phase, with
\* the correlation id (if any) and the metadata of the current one, whenever
\* the current phase has a next phase; it returns None only when the current
\* phase is the last phase (feedback) or is not a valid phase.
C36_NextContextCarriesOver ==
    (subject.op = "create_next_context")
       => LET current == subject.context
          IN  /\ (current.phase \in DOMAIN FollowingPhase)
                    => /\ subject.result # None
                       /\ subject.result[1].phase = FollowingPhase[current.phase]
                       /\ subject.result[1].correlation_id = current.correlation_id
                       /\ subject.result[1].metadata = current.metadata
              /\ (subject.result = None)
                    => (current.phase \notin DOMAIN FollowingPhase)

\* C37: for every valid TriggerName, to_snake_case and to_kebab_case both
\* return Ok, and the name returned satisfies is_snake_case, respectively
\* is_kebab_case; converting never turns a valid name into one that fails the
\* validation of names.
C37_CaseConversionsSucceed ==
    /\ (subject.op = "to_snake_case")
          => /\ subject.result = <<"Ok">>
             /\ subject.value # None
             /\ IsSnakeCase(subject.value[1])
             /\ ValidateName(subject.value[1]) = <<"Ok">>
    /\ (subject.op = "to_kebab_case")
          => /\ subject.result = <<"Ok">>
             /\ subject.value # None
             /\ IsKebabCase(subject.value[1])
             /\ ValidateName(subject.value[1]) = <<"Ok">>

====
